---- MODULE Spec2Model ----
(***************************************************************************)
(* The project generation pipeline of nodejs-screaming-architecture:       *)
(* ProjectGenerator.generateProject and the generators it drives, down to  *)
(* the FileUtils primitives.  A domain name is a sequence of characters, a *)
(* path a sequence of segments relative to the project directory, a file   *)
(* content the record of the cross references the generated text holds.    *)
(***************************************************************************)
EXTENDS Integers, Sequences, FiniteSets, TLC

VARIABLES projectInfo, pc, ip, trace, dirs, files, issued, status,
          thrown, fsFailures, warnings,
          args,      \* the arguments of the entry point that runs
          locals,    \* its local variables and what it has returned
          snapshot   \* what was there when it was called

vars == <<projectInfo, pc, ip, trace, dirs, files, issued, status,
          thrown, fsFailures, warnings, args, locals, snapshot>>

\* generateProject takes projectInfo alone and keeps its state in the
\* variables of its own
frame == <<args, locals, snapshot>>

(***************************************************************************)
(* Bounds                                                                  *)
(***************************************************************************)
MaxDomains == 2

(***************************************************************************)
(* Strings                                                                 *)
(***************************************************************************)
RECURSIVE Join(_)
Join(s) ==
    IF s = <<>> THEN ""
    ELSE IF Len(s) > 8
    THEN Join(SubSeq(s, 1, Len(s) \div 2))
            \o Join(SubSeq(s, Len(s) \div 2 + 1, Len(s)))
    ELSE Head(s) \o Join(Tail(s))

RECURSIVE JoinWith(_, _)
JoinWith(s, sep) ==
    IF s = <<>> THEN ""
    ELSE IF Len(s) = 1 THEN Head(s)
    ELSE Head(s) \o sep \o JoinWith(Tail(s), sep)

RECURSIVE Flatten(_)
Flatten(ss) == IF ss = <<>> THEN <<>> ELSE Head(ss) \o Flatten(Tail(ss))

Last(s) == s[Len(s)]

\* the set of the elements of a sequence
Range(s) == { s[i] : i \in 1..Len(s) }

Front(s) == SubSeq(s, 1, Len(s) - 1)

IsPrefix(s, t) == Len(s) <= Len(t) /\ SubSeq(t, 1, Len(s)) = s

Lower == <<"a", "b", "c", "d", "e", "f", "g", "h", "i", "j", "k", "l", "m",
           "n", "o", "p", "q", "r", "s", "t", "u", "v", "w", "x", "y", "z">>

Upper == <<"A", "B", "C", "D", "E", "F", "G", "H", "I", "J", "K", "L", "M",
           "N", "O", "P", "Q", "R", "S", "T", "U", "V", "W", "X", "Y", "Z">>

toUpperCase(c) ==
    IF \E i \in 1..Len(Lower) : Lower[i] = c
    THEN Upper[CHOOSE i \in 1..Len(Lower) : Lower[i] = c]
    ELSE c

\* domain.charAt(0).toUpperCase() + domain.slice(1)
capitalizedDomain(domain) ==
    IF domain = <<>> THEN ""
    ELSE toUpperCase(Head(domain)) \o Join(Tail(domain))

(***************************************************************************)
(* The inputs of generateProject                                           *)
(***************************************************************************)
DomainPool == { <<"o", "r", "d", "e", "r", "s">>,
                <<"u", "s", "e", "r", "s">>,
                <<"s", "h", "a", "r", "e", "d">> }

DatabaseType == {"mongodb", "postgresql", "mysql", "none"}

DomainLists == UNION { [1..n -> DomainPool] : n \in 1..MaxDomains }

ProjectInfos == [ domains : DomainLists, includeDocker : BOOLEAN,
                  includeTests : BOOLEAN, database : DatabaseType ]

\* the invariant of the data model on the domain list
ValidDomains(domains) ==
    /\ Len(domains) >= 1
    /\ \A i, j \in 1..Len(domains) : i # j => domains[i] # domains[j]

FsErrors == {"EACCES: permission denied", "ENOSPC: no space left on device"}

(***************************************************************************)
(* Paths                                                                   *)
(***************************************************************************)
PathStr(p) == JoinWith(p, "/")

dirname(p) == Front(p)

\* every directory mkdirSync(p, {recursive: true}) leaves behind
Ancestors(p) == { SubSeq(p, 1, n) : n \in 0..Len(p) }

\* require(target) issued by the file written at `from`
RECURSIVE Walk(_, _)
Walk(base, target) ==
    IF target = <<>> THEN base
    ELSE IF Head(target) = "." THEN Walk(base, Tail(target))
    ELSE IF Head(target) = ".." THEN Walk(Front(base), Tail(target))
    ELSE Walk(Append(base, Head(target)), Tail(target))

Resolve(from, target) == Walk(dirname(from), target)

\* the file Node loads for a resolved module path, given the files present
ModuleFile(p) == Append(Front(p), Last(p) \o ".js")

IsRelative(target) == target # <<>> /\ Head(target) \in {".", ".."}

(***************************************************************************)
(* Filesystem operations the generators issue, in the order of the code    *)
(***************************************************************************)
Text(tag) ==
    [tag |-> tag, exports |-> "", requires |-> <<>>, mounts |-> <<>>,
     endpoints |-> <<>>]

Module(tag, exports, requires) ==
    [tag |-> tag, exports |-> exports, requires |-> requires,
     mounts |-> <<>>, endpoints |-> <<>>]

Req(ident, target) == [ident |-> ident, target |-> target]

\* FileUtils.ensureDirectory(path); `via` names who called it
EnsureOp(path, via) ==
    [kind |-> "ensureDirectory", path |-> path, content |-> Text(""),
     via |-> via]

\* FileUtils.writeFile(path, content)
WriteOp(path, content) ==
    [kind |-> "writeFile", path |-> path, content |-> content,
     via |-> "generator"]

\* FileUtils.makeExecutable(path)
ChmodOp(path) ==
    [kind |-> "makeExecutable", path |-> path, content |-> Text(""),
     via |-> "generator"]

\* the list createProjectStructure builds before it creates anything
baseDirectories ==
    << <<"src">>,
       <<"src", "shared">>,
       <<"src", "shared", "domain">>,
       <<"src", "shared", "domain", "events">>,
       <<"src", "shared", "domain", "value-objects">>,
       <<"src", "shared", "infrastructure">>,
       <<"src", "shared", "infrastructure", "database">>,
       <<"src", "shared", "infrastructure", "messaging">>,
       <<"src", "shared", "infrastructure", "logging">>,
       <<"src", "shared", "application">>,
       <<"src", "shared", "application", "middlewares">>,
       <<"config">>,
       <<"docs">> >>

testDirectories ==
    << <<"tests">>, <<"tests", "unit">>, <<"tests", "integration">>,
       <<"tests", "e2e">> >>

dockerDirectories(pi) ==
    IF ~pi.includeDocker THEN <<>>
    ELSE << <<"docker">> >> \o
         (IF pi.database # "none"
          THEN << <<"docker", pi.database>>,
                  <<"docker", pi.database, "init">> >>
          ELSE <<>>)

\* the list of a domain without its ports directory
domainDirs_withoutPorts(domain) ==
    LET d == Join(domain) IN
    << <<"src", d>>,
       <<"src", d, "application">>,
       <<"src", d, "application", "services">>,
       <<"src", d, "application", "use-cases">>,
       <<"src", d, "domain">>,
       <<"src", d, "domain", "entities">>,
       <<"src", d, "domain", "value-objects">>,
       <<"src", d, "domain", "events">>,
       <<"src", d, "infrastructure">>,
       <<"src", d, "infrastructure", "repositories">>,
       <<"src", d, "infrastructure", "controllers">>,
       <<"src", d, "infrastructure", "adapters">> >>

domainDirs(domain) ==
    LET d == Join(domain) IN
    << <<"src", d>>,
       <<"src", d, "application">>,
       <<"src", d, "application", "services">>,
       <<"src", d, "application", "use-cases">>,
       <<"src", d, "application", "ports">>,
       <<"src", d, "domain">>,
       <<"src", d, "domain", "entities">>,
       <<"src", d, "domain", "value-objects">>,
       <<"src", d, "domain", "events">>,
       <<"src", d, "infrastructure">>,
       <<"src", d, "infrastructure", "repositories">>,
       <<"src", d, "infrastructure", "controllers">>,
       <<"src", d, "infrastructure", "adapters">> >>

domainTestDirs(domain) ==
    LET d == Join(domain) IN
    << <<"tests", d>>, <<"tests", d, "unit">>, <<"tests", d, "integration">> >>

directories(pi) ==
    baseDirectories
    \o (IF pi.includeTests THEN testDirectories ELSE <<>>)
    \o dockerDirectories(pi)
    \o Flatten([i \in 1..Len(pi.domains) |->
                  domainDirs(pi.domains[i])
                  \o (IF pi.includeTests THEN domainTestDirs(pi.domains[i])
                      ELSE <<>>)])

\* createProjectStructure: FileUtils.createDirectories(projectPath, directories)
createProjectStructureOps(pi) ==
    LET ds == directories(pi) IN
    [i \in 1..Len(ds) |-> EnsureOp(ds[i], "FileUtils")]

\* a server file that walks the domain list from its end
serverContent_reversed(pi) ==
    LET n == Len(pi.domains)
        d(i) == Join(pi.domains[n + 1 - i])
    IN  [tag |-> "server.js",
         exports |-> "app",
         requires |-> << Req("express", <<"express">>), Req("cors", <<"cors">>),
                         Req("helmet", <<"helmet">>),
                         Req("dotenv", <<"dotenv">>) >>,
         mounts |-> [i \in 1..n |->
                       [ident |-> d(i) \o "Routes",
                        target |-> <<".", "src", d(i), "infrastructure", "routes">>,
                        url |-> "/api/" \o d(i)]],
         endpoints |-> [i \in 1..n |->
                          [name |-> d(i),
                           health |-> "GET /api/" \o d(i) \o "/health",
                           link |-> "/api/" \o d(i)]]]

\* the cross references of the text generateServerFile renders
serverContent(pi) ==
    LET n == Len(pi.domains)
        d(i) == Join(pi.domains[i])
    IN  [tag |-> "server.js",
         exports |-> "app",
         requires |-> << Req("express", <<"express">>), Req("cors", <<"cors">>),
                         Req("helmet", <<"helmet">>),
                         Req("dotenv", <<"dotenv">>) >>,
         mounts |-> [i \in 1..n |->
                       [ident |-> d(i) \o "Routes",
                        target |-> <<".", "src", d(i), "infrastructure", "routes">>,
                        url |-> "/api/" \o d(i)]],
         endpoints |-> [i \in 1..n |->
                          [name |-> d(i),
                           health |-> "GET /api/" \o d(i) \o "/health",
                           link |-> "/api/" \o d(i)]]]

generateServerFile(pi) == WriteOp(<<"src", "server.js">>, serverContent(pi))

\* generateBaseFiles: package.json, server.js, README.md, .env.example, .gitignore
generateBaseFilesOps(pi) ==
    << WriteOp(<<"package.json">>, Text("package.json")),
       generateServerFile(pi),
       WriteOp(<<"README.md">>, Text("README.md")),
       WriteOp(<<".env.example">>, Text(".env.example")),
       WriteOp(<<".gitignore">>, Text(".gitignore")) >>

\* DomainGenerator.createDomainStructure, through BaseFileGenerator.createDirectories
createDomainStructure(domain) ==
    LET d == Join(domain)
        sub == << <<"application", "services">>,
                  <<"application", "use-cases">>,
                  <<"application", "ports">>,
                  <<"domain", "entities">>,
                  <<"domain", "value-objects">>,
                  <<"domain", "events">>,
                  <<"infrastructure", "repositories">>,
                  <<"infrastructure", "controllers">>,
                  <<"infrastructure", "adapters">> >>
    IN  [i \in 1..Len(sub) |->
           EnsureOp(<<"src", d>> \o sub[i], "BaseFileGenerator")]

EntityGenerator_generateForDomain(domain) ==
    LET cap == capitalizedDomain(domain) IN
    << WriteOp(<<"src", Join(domain), "domain", "entities", cap \o ".js">>,
               Module("entity", cap, <<>>)) >>

useCases == <<"Create", "Update", "Delete", "FindById", "FindAll">>

\* only the create use case requires the entity
createUseCaseContent(domain, name) ==
    LET cap == capitalizedDomain(domain) IN
    Module("usecase", name \o cap \o "UseCase",
           IF name = "Create"
           THEN << Req(cap, <<"..", "..", "domain", "entities", cap>>) >>
           ELSE <<>>)

UseCaseGenerator_generateForDomain(domain) ==
    LET cap == capitalizedDomain(domain) IN
    [i \in 1..Len(useCases) |->
       WriteOp(<<"src", Join(domain), "application", "use-cases",
                 useCases[i] \o cap \o "UseCase.js">>,
               createUseCaseContent(domain, useCases[i]))]

createControllerContent(domain) ==
    LET cap == capitalizedDomain(domain) IN
    Module("controller", cap \o "Controller",
           [i \in 1..Len(useCases) |->
              Req(useCases[i] \o cap \o "UseCase",
                  <<"..", "..", "application", "use-cases",
                    useCases[i] \o cap \o "UseCase">>)])

\* a controller file named after the raw domain name
ControllerGenerator_generateForDomain_rawName(domain) ==
    << WriteOp(<<"src", Join(domain), "infrastructure", "controllers",
                 Join(domain) \o "Controller.js">>,
               createControllerContent(domain)) >>

ControllerGenerator_generateForDomain(domain) ==
    LET cap == capitalizedDomain(domain) IN
    << WriteOp(<<"src", Join(domain), "infrastructure", "controllers",
                 cap \o "Controller.js">>,
               createControllerContent(domain)) >>

createRoutesContent(domain) ==
    LET cap == capitalizedDomain(domain) IN
    Module("routes", "router",
           << Req("express", <<"express">>),
              Req(cap \o "Controller", <<".", "controllers", cap \o "Controller">>),
              Req("Memory" \o cap \o "Repository",
                  <<".", "repositories", "Memory" \o cap \o "Repository">>) >>)

RoutesGenerator_generateForDomain(domain) ==
    << WriteOp(<<"src", Join(domain), "infrastructure", "routes.js">>,
               createRoutesContent(domain)) >>

getDatabasePrefix(database) ==
    CASE database = "mongodb" -> "Mongo"
      [] database = "postgresql" -> "Postgres"
      [] database = "mysql" -> "Mysql"
      [] OTHER -> ""

\* RepositoryGenerator.generateForDomain: port, in-memory implementation and,
\* for a database, its implementation
RepositoryGenerator_generateForDomain(domain, pi) ==
    LET cap == capitalizedDomain(domain)
        d == Join(domain)
        port == Req(cap \o "Repository",
                    <<"..", "..", "application", "ports", cap \o "Repository">>)
        entity == Req(cap, <<"..", "..", "domain", "entities", cap>>)
    IN  << WriteOp(<<"src", d, "application", "ports", cap \o "Repository.js">>,
                   Module("port", cap \o "Repository", <<>>)),
           WriteOp(<<"src", d, "infrastructure", "repositories",
                     "Memory" \o cap \o "Repository.js">>,
                   Module("repository", "Memory" \o cap \o "Repository",
                          <<port, entity>>)) >>
        \o (IF pi.database \in {"mongodb", "postgresql", "mysql"}
            THEN << WriteOp(<<"src", d, "infrastructure", "repositories",
                              getDatabasePrefix(pi.database) \o cap
                                \o "Repository.js">>,
                            Module("repository",
                                   getDatabasePrefix(pi.database) \o cap
                                     \o "Repository",
                                   <<port, entity>>)) >>
            ELSE <<>>)
\* the generators awaited in the reverse order: routes, controller, use
\* cases, entity
generateDomainFiles_routesFirst(domain, pi) ==
    RoutesGenerator_generateForDomain(domain)
    \o ControllerGenerator_generateForDomain(domain)
    \o UseCaseGenerator_generateForDomain(domain)
    \o EntityGenerator_generateForDomain(domain)

\* DomainGenerator.generateDomainFiles: entity, use cases, controller, routes;
\* the repository generator is constructed but not run
generateDomainFiles(domain, pi) ==
    EntityGenerator_generateForDomain(domain)
    \o UseCaseGenerator_generateForDomain(domain)
    \o ControllerGenerator_generateForDomain(domain)
    \o RoutesGenerator_generateForDomain(domain)

generateSingleDomain(domain, pi) ==
    createDomainStructure(domain) \o generateDomainFiles(domain, pi)

\* DomainGenerator.generate: the domains one after the other
DomainGenerator_generateOps(pi) ==
    Flatten([i \in 1..Len(pi.domains) |-> generateSingleDomain(pi.domains[i], pi)])

ConfigGenerator_generateOps(pi) ==
    << WriteOp(<<"config", "database.js">>, Text("database.js:" \o pi.database)),
       WriteOp(<<"config", "server.js">>, Text("config/server.js")),
       WriteOp(<<"config", "app.js">>, Text("config/app.js")) >>

\* the init script written next to the init directory instead of into it
generateDatabaseScripts_besideInit(pi) ==
    LET scriptsPath == <<"docker", pi.database>> IN
    CASE pi.database = "mongodb" ->
           << WriteOp(Append(scriptsPath, "01-init.js"), Text("mongo-init")) >>
      [] pi.database = "postgresql" ->
           << WriteOp(Append(scriptsPath, "01-init.sql"), Text("postgres-init")) >>
      [] pi.database = "mysql" ->
           << WriteOp(Append(scriptsPath, "01-init.sql"), Text("mysql-init")) >>
      [] OTHER -> <<>>

generateDatabaseScripts(pi) ==
    LET scriptsPath == <<"docker", pi.database, "init">> IN
    CASE pi.database = "mongodb" ->
           << WriteOp(Append(scriptsPath, "01-init.js"), Text("mongo-init")) >>
      [] pi.database = "postgresql" ->
           << WriteOp(Append(scriptsPath, "01-init.sql"), Text("postgres-init")) >>
      [] pi.database = "mysql" ->
           << WriteOp(Append(scriptsPath, "01-init.sql"), Text("mysql-init")) >>
      [] OTHER -> <<>>

DockerGenerator_generateOps(pi) ==
    << WriteOp(<<"Dockerfile">>, Text("Dockerfile")),
       WriteOp(<<"docker-compose.yml">>, Text("docker-compose.yml")),
       WriteOp(<<"docker-compose.dev.yml">>, Text("docker-compose.dev.yml")),
       WriteOp(<<".dockerignore">>, Text(".dockerignore")) >>
    \o (IF pi.database # "none" THEN generateDatabaseScripts(pi) ELSE <<>>)
    \o << WriteOp(<<"Makefile">>, Text("Makefile")),
          WriteOp(<<"dev-start.sh">>, Text("dev-start.sh")),
          ChmodOp(<<"dev-start.sh">>) >>

\* generateAdditionalFiles: generateDocsFiles, then generateSharedFiles
generateAdditionalFilesOps(pi) ==
    << WriteOp(<<"docs", "architecture.md">>, Text("architecture.md")),
       WriteOp(<<"src", "shared", "infrastructure", "messaging", "EventBus.js">>,
               Module("eventbus", "EventBus", <<>>)) >>

(***************************************************************************)
(* FileUtils: each primitive maps the tree to the set of its outcomes      *)
(***************************************************************************)
\* `${error}` of an Error object
ErrStr(message) == <<"Error: ">> \o message

Outcome(ok, ds, fs, error, cause, prim) ==
    [ok |-> ok, dirs |-> ds, files |-> fs, error |-> error, cause |-> cause,
     prim |-> prim, warn |-> <<>>]

\* mkdirSync issued whether or not the directory exists
ensureDirectory_noExistsCheck(path, ds, fs) ==
    { Outcome(TRUE, ds \cup Ancestors(path), fs, <<>>, "", "") }
    \cup { Outcome(FALSE, ds, fs,
                   <<"Failed to create directory ", PathStr(path), ": ">>
                     \o ErrStr(<<e>>),
                   e, "mkdirSync") : e \in FsErrors }

ensureDirectory(path, ds, fs) ==
    IF path \in ds
    THEN { Outcome(TRUE, ds, fs, <<>>, "", "") }
    ELSE { Outcome(TRUE, ds \cup Ancestors(path), fs, <<>>, "", "") }
         \cup { Outcome(FALSE, ds, fs,
                        <<"Failed to create directory ", PathStr(path), ": ">>
                          \o ErrStr(<<e>>),
                        e, "mkdirSync") : e \in FsErrors }

Put(fs, path, content) ==
    [p \in DOMAIN fs \cup {path} |-> IF p = path THEN content ELSE fs[p]]
\* a writeFile that refuses to replace an existing file (flag 'wx')
writeFile_exclusive(path, content, ds, fs) ==
    UNION { IF ~m.ok
            THEN { Outcome(FALSE, m.dirs, fs,
                           <<"Failed to write file ", PathStr(path), ": ">>
                             \o ErrStr(m.error),
                           m.cause, m.prim) }
            ELSE IF path \in DOMAIN fs
            THEN { Outcome(FALSE, m.dirs, fs,
                           <<"Failed to write file ", PathStr(path), ": ">>
                             \o ErrStr(<<"EEXIST: file already exists">>),
                           "EEXIST: file already exists", "writeFileSync") }
            ELSE { Outcome(TRUE, m.dirs, Put(fs, path, content), <<>>, "", "") }
                 \cup { Outcome(FALSE, m.dirs, fs,
                                <<"Failed to write file ", PathStr(path), ": ">>
                                  \o ErrStr(<<e>>),
                                e, "writeFileSync") : e \in FsErrors }
          : m \in ensureDirectory(dirname(path), ds, fs) }

writeFile(path, content, ds, fs) ==
    UNION { IF ~m.ok
            THEN { Outcome(FALSE, m.dirs, fs,
                           <<"Failed to write file ", PathStr(path), ": ">>
                             \o ErrStr(m.error),
                           m.cause, m.prim) }
            ELSE { Outcome(TRUE, m.dirs, Put(fs, path, content), <<>>, "", "") }
                 \cup { Outcome(FALSE, m.dirs, fs,
                                <<"Failed to write file ", PathStr(path), ": ">>
                                  \o ErrStr(<<e>>),
                                e, "writeFileSync") : e \in FsErrors }
          : m \in ensureDirectory(dirname(path), ds, fs) }

\* chmodSync may fail; the catch only warns
makeExecutable(path, ds, fs) ==
    { Outcome(TRUE, ds, fs, <<>>, "", "") }
    \cup { [Outcome(TRUE, ds, fs, <<>>, e, "chmodSync") EXCEPT
              !.warn = <<"Could not make file executable: " \o PathStr(path)>>]
           : e \in FsErrors }

\* BaseFileGenerator.createDirectories wraps what FileUtils.createDirectories throws
BaseFileGenerator_createDirectories(path, ds, fs) ==
    { IF m.ok THEN m
      ELSE [m EXCEPT !.error = <<"Failed to create directories: ">>
                                 \o ErrStr(m.error)]
      : m \in ensureDirectory(path, ds, fs) }

Exec(op, ds, fs) ==
    CASE op.kind = "ensureDirectory" /\ op.via = "BaseFileGenerator" ->
           BaseFileGenerator_createDirectories(op.path, ds, fs)
      [] op.kind = "ensureDirectory" /\ op.via # "BaseFileGenerator" ->
           ensureDirectory(op.path, ds, fs)
      [] op.kind = "writeFile" -> writeFile(op.path, op.content, ds, fs)
      [] op.kind = "makeExecutable" -> makeExecutable(op.path, ds, fs)

(***************************************************************************)
(* ProjectGenerator.generateProject                                        *)
(***************************************************************************)
\* the try block with the domains generated before the base files
NextStage_domainsFirst(stage, pi) ==
    CASE stage = "createProjectStructure" -> "domainGenerator.generate"
      [] stage = "domainGenerator.generate" -> "generateBaseFiles"
      [] stage = "generateBaseFiles" -> "configGenerator.generate"
      [] stage = "configGenerator.generate" ->
           IF pi.includeDocker THEN "dockerGenerator.generate"
           ELSE "generateAdditionalFiles"
      [] stage = "dockerGenerator.generate" -> "generateAdditionalFiles"
      [] stage = "generateAdditionalFiles" -> "return"

\* the statement that follows a stage in the try block of generateProject
NextStage(stage, pi) ==
    CASE stage = "createProjectStructure" -> "generateBaseFiles"
      [] stage = "generateBaseFiles" -> "domainGenerator.generate"
      [] stage = "domainGenerator.generate" -> "configGenerator.generate"
      [] stage = "configGenerator.generate" ->
           IF pi.includeDocker THEN "dockerGenerator.generate"
           ELSE "generateAdditionalFiles"
      [] stage = "dockerGenerator.generate" -> "generateAdditionalFiles"
      [] stage = "generateAdditionalFiles" -> "return"

\* the state the pipeline is in once a stage has returned
Completed(stage) ==
    CASE stage = "createProjectStructure" -> "StructureCreated"
      [] stage = "generateBaseFiles" -> "BaseFilesGenerated"
      [] stage = "domainGenerator.generate" -> "DomainsGenerated"
      [] stage = "configGenerator.generate" -> "ConfigGenerated"
      [] stage = "dockerGenerator.generate" -> "ContainerArtifactsGenerated"
      [] stage = "generateAdditionalFiles" -> "AdditionalFilesGenerated"

StageOps(stage, pi) ==
    CASE stage = "createProjectStructure" -> createProjectStructureOps(pi)
      [] stage = "generateBaseFiles" -> generateBaseFilesOps(pi)
      [] stage = "domainGenerator.generate" -> DomainGenerator_generateOps(pi)
      [] stage = "configGenerator.generate" -> ConfigGenerator_generateOps(pi)
      [] stage = "dockerGenerator.generate" -> DockerGenerator_generateOps(pi)
      [] stage = "generateAdditionalFiles" -> generateAdditionalFilesOps(pi)
      [] OTHER -> <<>>

\* a catch block that records the error and does not rethrow it
generate_catch_swallow(stage, error) == <<>>

\* the catch block of a generator's generate: records the error, rethrows it
\* (createProjectStructure, generateBaseFiles and generateAdditionalFiles
\* have none); <<>> would be an error that is not rethrown
generate_catch(stage, error) == <<error>>

\* a catch block that throws a new Error around the one it caught
generateProject_catch_wrap(error) ==
    << <<"Failed to generate project: ">> \o ErrStr(error) >>

\* the catch block of generateProject: logs and rethrows the same error
generateProject_catch(error) == <<error>>

\* what an error thrown by a FileUtils call of a stage reaches the caller as
Caught(stage, error) ==
    LET inner == generate_catch(stage, error) IN
    IF inner = <<>> THEN <<>> ELSE generateProject_catch(inner[1])

Init ==
    /\ projectInfo \in ProjectInfos
    /\ pc = "createProjectStructure"
    /\ ip = 1
    /\ trace = <<"Planned">>
    /\ dirs = {}
    /\ files = [p \in {} |-> Text("")]
    /\ issued = <<>>
    /\ status = "running"
    /\ thrown = <<>>
    /\ fsFailures = <<>>
    /\ warnings = <<>>
    /\ args = <<>>
    /\ locals = <<>>
    /\ snapshot = <<>>

\* one awaited FileUtils call of the running stage; a throw leaves the try
\* block through the catch of generateProject, which rethrows
RunStage(stage) ==
    /\ status = "running"
    /\ pc = stage
    /\ \E ops \in {StageOps(stage, projectInfo)} :
         /\ ip \in 1..Len(ops)
         /\ \E op \in {ops[ip]} : \E o \in Exec(op, dirs, files) :
              /\ dirs' = o.dirs
              /\ files' = o.files
              /\ issued' = Append(issued, [kind |-> op.kind, path |-> op.path])
              /\ warnings' = warnings \o o.warn
              /\ fsFailures' =
                   IF o.prim = "" THEN fsFailures
                   ELSE Append(fsFailures,
                               [kind |-> op.kind, path |-> op.path,
                                via |-> op.via, prim |-> o.prim,
                                cause |-> o.cause])
              /\ IF o.ok \/ Caught(stage, o.error) = <<>>
                 THEN /\ UNCHANGED <<status, thrown>>
                      /\ IF ip = Len(ops)
                         THEN /\ pc' = NextStage(stage, projectInfo)
                              /\ ip' = 1
                              /\ trace' = Append(trace, Completed(stage))
                         ELSE /\ ip' = ip + 1
                              /\ UNCHANGED <<pc, trace>>
                 ELSE /\ status' = "failed"
                      /\ thrown' = Caught(stage, o.error)[1]
                      /\ UNCHANGED <<pc, ip, trace>>
    /\ UNCHANGED <<projectInfo, frame>>

createProjectStructure == RunStage("createProjectStructure")

generateBaseFiles == RunStage("generateBaseFiles")

DomainGenerator_generate == RunStage("domainGenerator.generate")

ConfigGenerator_generate == RunStage("configGenerator.generate")

DockerGenerator_generate ==
    /\ projectInfo.includeDocker
    /\ RunStage("dockerGenerator.generate")

generateAdditionalFiles == RunStage("generateAdditionalFiles")

\* the success messages and the normal return of generateProject
generateProjectReturn ==
    /\ status = "running"
    /\ pc = "return"
    /\ status' = "done"
    /\ trace' = Append(trace, "Done")
    /\ UNCHANGED <<projectInfo, pc, ip, dirs, files, issued, thrown,
                   fsFailures, warnings, frame>>

Next ==
    \/ createProjectStructure
    \/ generateBaseFiles
    \/ DomainGenerator_generate
    \/ ConfigGenerator_generate
    \/ DockerGenerator_generate
    \/ generateAdditionalFiles
    \/ generateProjectReturn

Spec == Init /\ [][Next]_vars

TypeOK ==
    /\ status \in {"running", "done", "failed"}
    /\ pc \in {"createProjectStructure", "generateBaseFiles",
               "domainGenerator.generate", "configGenerator.generate",
               "dockerGenerator.generate", "generateAdditionalFiles", "return"}
    /\ ip >= 1

(***************************************************************************)
(* FileUtils.createDirectories, called twice with the same arguments       *)
(***************************************************************************)
MaxList == 3

\* directories relative to the base path, nested ones and siblings
DirectoryPool == { <<"src">>, <<"src", "shared">>,
                   <<"src", "shared", "domain">>, <<"config">> }

DirectoryLists == UNION { [1..n -> DirectoryPool] : n \in 1..MaxList }

\* what the base path holds before the first call
InitialTrees == { {<<>>}, {<<>>, <<"src">>}, {<<>>, <<"config">>} }

NoFiles == [p \in {} |-> Text("")]

InitCreateDirectories ==
    /\ args \in [basePath : {<<>>}, directories : DirectoryLists]
    /\ locals = [call |-> 1, createdDirs |-> <<>>]
    /\ snapshot = <<>>
    /\ dirs \in InitialTrees
    /\ files = NoFiles
    /\ pc = "createDirectories"
    /\ ip = 1
    /\ status = "running"
    /\ thrown = <<>>
    /\ issued = <<>>
    /\ projectInfo = <<>>
    /\ trace = <<>>
    /\ fsFailures = <<>>
    /\ warnings = <<>>

\* one iteration of the loop: await ensureDirectory, then createdDirs.push
createDirectories_iteration ==
    /\ status = "running"
    /\ pc = "createDirectories"
    /\ ip \in 1..Len(args.directories)
    /\ \E dir \in {args.directories[ip]} :
       \E o \in ensureDirectory(args.basePath \o dir, dirs, files) :
         /\ dirs' = o.dirs
         /\ issued' = Append(issued, [kind |-> "ensureDirectory",
                                      path |-> args.basePath \o dir])
         /\ IF o.ok
            THEN /\ locals' = [locals EXCEPT
                                 !.createdDirs = Append(@, dir)]
                 /\ ip' = ip + 1
                 /\ UNCHANGED <<status, thrown>>
            ELSE /\ status' = "failed"
                 /\ thrown' = o.error
                 /\ UNCHANGED <<locals, ip>>
    /\ UNCHANGED <<projectInfo, pc, trace, files, fsFailures, warnings,
                   args, snapshot>>

\* return createdDirs
createDirectories_return ==
    /\ status = "running"
    /\ pc = "createDirectories"
    /\ ip = Len(args.directories) + 1
    /\ pc' = "returned"
    /\ UNCHANGED <<projectInfo, ip, trace, dirs, files, issued, status,
                   thrown, fsFailures, warnings, frame>>

\* the caller calls createDirectories again with the same base path and list
createDirectories_again ==
    /\ status = "running"
    /\ pc = "returned"
    /\ locals.call = 1
    /\ snapshot' = [dirs |-> dirs, createdDirs |-> locals.createdDirs]
    /\ locals' = [call |-> 2, createdDirs |-> <<>>]
    /\ pc' = "createDirectories"
    /\ ip' = 1
    /\ UNCHANGED <<projectInfo, trace, dirs, files, issued, status, thrown,
                   fsFailures, warnings, args>>

NextCreateDirectories ==
    \/ createDirectories_iteration
    \/ createDirectories_return
    \/ createDirectories_again

SpecCreateDirectories ==
    InitCreateDirectories /\ [][NextCreateDirectories]_vars

(***************************************************************************)
(* addDomainCommand on a project that exists                               *)
(***************************************************************************)
Digits == <<"0", "1", "2", "3", "4", "5", "6", "7", "8", "9">>

toLowerCase(c) ==
    IF \E i \in 1..Len(Upper) : Upper[i] = c
    THEN Lower[CHOOSE i \in 1..Len(Upper) : Upper[i] = c]
    ELSE c

\* value.toLowerCase()
LowerCased(value) == [i \in 1..Len(value) |-> toLowerCase(value[i])]

\* value.trim()
RECURSIVE trim(_)
trim(value) ==
    IF value = <<>> THEN <<>>
    ELSE IF Head(value) = " " THEN trim(Tail(value))
    ELSE IF Last(value) = " " THEN trim(Front(value))
    ELSE value

\* /^[a-z][a-z0-9]*$/.test(value)
IsDomainName(value) ==
    /\ value # <<>>
    /\ value[1] \in Range(Lower)
    /\ \A i \in 2..Len(value) : value[i] \in Range(Lower) \cup Range(Digits)

\* fs.existsSync: a directory or a file
existsSync(path, ds, fs) == path \in ds \/ path \in DOMAIN fs

\* the validation that accepts a name whose folder exists
validateInput_noExistsCheck(value, ds, fs) ==
    IF trim(value) = <<>> THEN "Domain name is required"
    ELSE IF ~IsDomainName(value)
    THEN "Use lowercase letters and numbers only, starting with a letter"
    ELSE "null"

\* the validateInput callback of showInputBox; "null" stands for null
validateInput(value, ds, fs) ==
    IF trim(value) = <<>> THEN "Domain name is required"
    ELSE IF ~IsDomainName(value)
    THEN "Use lowercase letters and numbers only, starting with a letter"
    ELSE IF existsSync(<<"src", Join(LowerCased(trim(value)))>>, ds, fs)
    THEN "Domain already exists"
    ELSE "null"

\* fs.mkdirSync(path, {recursive: true})
mkdirSync(path, ds, fs) ==
    IF \E a \in Ancestors(path) : a \in DOMAIN fs
    THEN { Outcome(FALSE, ds, fs, <<"EEXIST: file already exists">>,
                   "EEXIST: file already exists", "mkdirSync") }
    ELSE IF path \in ds
    THEN { Outcome(TRUE, ds, fs, <<>>, "", "") }
    ELSE { Outcome(TRUE, ds \cup Ancestors(path), fs, <<>>, "", "") }
         \cup { Outcome(FALSE, ds, fs, <<e>>, e, "mkdirSync") : e \in FsErrors }

\* fs.writeFileSync(path, content)
writeFileSync(path, content, ds, fs) ==
    IF dirname(path) \notin ds
    THEN { Outcome(FALSE, ds, fs, <<"ENOENT: no such file or directory">>,
                   "ENOENT: no such file or directory", "writeFileSync") }
    ELSE IF path \in ds
    THEN { Outcome(FALSE, ds, fs, <<"EISDIR: illegal operation on a directory">>,
                   "EISDIR: illegal operation on a directory", "writeFileSync") }
    ELSE { Outcome(TRUE, ds, Put(fs, path, content), <<>>, "", "") }
         \cup { Outcome(FALSE, ds, fs, <<e>>, e, "writeFileSync")
                : e \in FsErrors }

\* a synchronous fs call; `guard` is the existsSync test in front of it
SyncOp(kind, path, content, guard) ==
    [kind |-> kind, path |-> path, content |-> content, guard |-> guard]

\* createDomainStructure(srcPath, domain) of addDomain.ts
addDomain_createDomainStructure(domain) ==
    LET d == Join(domain)
        list == << <<d>>,
                          <<d, "application", "services">>,
                          <<d, "application", "use-cases">>,
                          <<d, "application", "ports">>,
                          <<d, "domain", "entities">>,
                          <<d, "domain", "value-objects">>,
                          <<d, "domain", "events">>,
                          <<d, "infrastructure", "repositories">>,
                          <<d, "infrastructure", "controllers">>,
                          <<d, "infrastructure", "adapters">> >>
    IN  [i \in 1..Len(list) |->
           SyncOp("mkdirSync", <<"src">> \o list[i], Text(""), "always")]
        \o << SyncOp("mkdirSync", <<"tests", d>>, Text(""), "testsExists") >>

\* a generator that rewrites the entry point of the project
FileGenerator_generateDomainFiles_serverToo(domain) ==
    << SyncOp("writeFileSync", <<"src", "server.js">>,
              Module("server", "", <<>>), "always") >>

\* FileGenerator.generateDomainFiles(domainPath, domainName) with
\* domainPath = src/<domain>: the required directories, then the five files
FileGenerator_generateDomainFiles(domain) ==
    LET cap == capitalizedDomain(domain)
        domainPath == <<"src", Join(domain)>>
        requiredDirs == << <<"domain", "entities">>,
                           <<"application", "use-cases">>,
                           <<"application", "ports">>,
                           <<"infrastructure", "controllers">>,
                           <<"infrastructure">> >>
    IN  [i \in 1..Len(requiredDirs) |->
           SyncOp("mkdirSync", domainPath \o requiredDirs[i], Text(""),
                  "missing")]
        \o << SyncOp("writeFileSync",
                     domainPath \o <<"domain", "entities", cap \o ".js">>,
                     Module("entity", cap, <<>>), "always"),
              SyncOp("writeFileSync",
                     domainPath \o <<"application", "use-cases",
                                     "Create" \o cap \o "UseCase.js">>,
                     Module("usecase", "Create" \o cap \o "UseCase",
                            << Req(cap, <<"..", "..", "domain", "entities",
                                          cap>>) >>),
                     "always"),
              SyncOp("writeFileSync",
                     domainPath \o <<"application", "ports",
                                     cap \o "Repository.js">>,
                     Module("port", cap \o "Repository", <<>>), "always"),
              SyncOp("writeFileSync",
                     domainPath \o <<"infrastructure", "controllers",
                                     cap \o "Controller.js">>,
                     Module("controller", cap \o "Controller",
                            << Req("Create" \o cap \o "UseCase",
                                   <<"..", "application", "use-cases",
                                     "Create" \o cap \o "UseCase">>) >>),
                     "always"),
              SyncOp("writeFileSync",
                     domainPath \o <<"infrastructure", "routes.js">>,
                     Module("routes", "router",
                            << Req("express", <<"express">>) >>),
                     "always") >>

\* the calls issued without the existsSync test in front of them
ExecSync_unguarded(op, ds, fs) ==
    IF op.kind = "mkdirSync" THEN mkdirSync(op.path, ds, fs)
    ELSE writeFileSync(op.path, op.content, ds, fs)

\* a synchronous call behind its existsSync test
ExecSync(op, ds, fs) ==
    IF \/ op.guard = "testsExists" /\ ~existsSync(<<"tests">>, ds, fs)
       \/ op.guard = "missing" /\ existsSync(op.path, ds, fs)
    THEN { Outcome(TRUE, ds, fs, <<>>, "", "") }
    ELSE IF op.kind = "mkdirSync" THEN mkdirSync(op.path, ds, fs)
    ELSE writeFileSync(op.path, op.content, ds, fs)

\* the tree a successful generateProject leaves
RECURSIVE Apply(_, _, _)
Apply(ops, ds, fs) ==
    IF ops = <<>> THEN [dirs |-> ds, files |-> fs]
    ELSE IF Len(ops) = 1
    THEN CHOOSE tree \in { [dirs |-> o.dirs, files |-> o.files] :
                             o \in { x \in Exec(Head(ops), ds, fs) :
                                       x.ok /\ x.prim = "" } } : TRUE
    ELSE CHOOSE tree \in { Apply(SubSeq(ops, Len(ops) \div 2 + 1, Len(ops)),
                                 half.dirs, half.files) :
                             half \in { Apply(SubSeq(ops, 1, Len(ops) \div 2),
                                              ds, fs) } } : TRUE

Generated(pi) ==
    Apply(createProjectStructureOps(pi) \o generateBaseFilesOps(pi)
          \o DomainGenerator_generateOps(pi) \o ConfigGenerator_generateOps(pi)
          \o (IF pi.includeDocker THEN DockerGenerator_generateOps(pi)
              ELSE <<>>)
          \o generateAdditionalFilesOps(pi),
          {<<>>}, NoFiles)

\* the projects addDomainCommand is run on: one domain, with and without tests
ExistingProjects ==
    { [domains |-> << <<"o", "r", "d", "e", "r", "s">> >>,
       includeDocker |-> FALSE, includeTests |-> t, database |-> db]
      : t \in BOOLEAN, db \in {"none", "mongodb"} }

\* what the workspace folder holds: a generated project, or no src folder
Workspaces ==
    { Generated(pi) : pi \in ExistingProjects }
    \cup { [dirs |-> {<<>>}, files |-> NoFiles] }

\* what the user types into the input box
TypedNames == { <<>>,
                <<"o", "r", "d", "e", "r", "s">>,
                <<"O", "r", "d", "e", "r", "s">>,
                <<"s", "h", "a", "r", "e", "d">>,
                <<"u", "s", "e", "r", "s">>,
                <<"b", "2">> }

InitAddDomain ==
    /\ args \in [workspaceFolder : BOOLEAN]
    /\ \E w \in Workspaces :
         /\ dirs = w.dirs
         /\ files = w.files
         /\ snapshot = w
    /\ locals = [value |-> <<>>, validation |-> "", domain |-> <<>>,
                 messages |-> <<>>]
    /\ pc = "addDomainCommand"
    /\ ip = 1
    /\ status = "running"
    /\ thrown = <<>>
    /\ issued = <<>>
    /\ projectInfo = <<>>
    /\ trace = <<>>
    /\ fsFailures = <<>>
    /\ warnings = <<>>

\* the two checks in front of the input box
addDomainCommand_checks ==
    /\ status = "running"
    /\ pc = "addDomainCommand"
    /\ IF ~args.workspaceFolder
       THEN /\ locals' = [locals EXCEPT !.messages =
                            Append(@, "Please open a workspace folder first")]
            /\ pc' = "returned"
            /\ status' = "rejected"
       ELSE IF ~existsSync(<<"src">>, dirs, files)
       THEN /\ locals' = [locals EXCEPT !.messages =
                            Append(@, "This doesn't appear to be a Node.js project with src folder")]
            /\ pc' = "returned"
            /\ status' = "rejected"
       ELSE /\ pc' = "showInputBox"
            /\ UNCHANGED <<locals, status>>
    /\ UNCHANGED <<projectInfo, ip, trace, dirs, files, issued, thrown,
                   fsFailures, warnings, args, snapshot>>

\* the user types a value; the box shows what validateInput returns
showInputBox_validateInput ==
    /\ status = "running"
    /\ pc = "showInputBox"
    /\ \E value \in TypedNames :
         locals' = [locals EXCEPT
                      !.value = value,
                      !.validation = validateInput(value, dirs, files)]
    /\ UNCHANGED <<projectInfo, pc, ip, trace, dirs, files, issued, status,
                   thrown, fsFailures, warnings, args, snapshot>>

\* the box accepts a value only while validateInput returns null
showInputBox_accept ==
    /\ status = "running"
    /\ pc = "showInputBox"
    /\ locals.validation = "null"
    /\ locals' = [locals EXCEPT !.domain = LowerCased(trim(locals.value))]
    /\ pc' = "createDomainStructure"
    /\ ip' = 1
    /\ UNCHANGED <<projectInfo, trace, dirs, files, issued, status, thrown,
                   fsFailures, warnings, args, snapshot>>

\* the user dismisses the box: if (!domainName) return
showInputBox_dismiss ==
    /\ status = "running"
    /\ pc = "showInputBox"
    /\ pc' = "returned"
    /\ status' = "cancelled"
    /\ UNCHANGED <<projectInfo, ip, trace, dirs, files, issued, thrown,
                   fsFailures, warnings, frame>>

\* one synchronous fs call of a step of the withProgress callback; what it
\* throws reaches the catch of addDomainCommand, which shows it
RunSync(step, ops, next) ==
    /\ status = "running"
    /\ pc = step
    /\ ip \in 1..Len(ops)
    /\ \E op \in {ops[ip]} : \E o \in ExecSync(op, dirs, files) :
         /\ dirs' = o.dirs
         /\ files' = o.files
         /\ issued' = Append(issued, [kind |-> op.kind, path |-> op.path])
         /\ IF o.ok
            THEN /\ IF ip = Len(ops)
                    THEN pc' = next /\ ip' = 1
                    ELSE ip' = ip + 1 /\ UNCHANGED pc
                 /\ UNCHANGED <<status, locals>>
            ELSE /\ status' = "failed"
                 /\ locals' = [locals EXCEPT !.messages =
                                 Append(@, Join(<<"Error adding domain: ">>
                                                  \o ErrStr(o.error)))]
                 /\ UNCHANGED <<pc, ip>>
    /\ UNCHANGED <<projectInfo, trace, thrown, fsFailures, warnings, args,
                   snapshot>>

withProgress_createDomainStructure ==
    \E ops \in {addDomain_createDomainStructure(locals.domain)} :
      RunSync("createDomainStructure", ops, "generateDomainFiles")

withProgress_generateDomainFiles ==
    \E ops \in {FileGenerator_generateDomainFiles(locals.domain)} :
      RunSync("generateDomainFiles", ops, "showInformationMessage")

\* the success message
addDomainCommand_showInformationMessage ==
    /\ status = "running"
    /\ pc = "showInformationMessage"
    /\ locals' = [locals EXCEPT !.messages =
                    Append(@, "Domain \"" \o Join(locals.domain)
                                \o "\" added successfully!")]
    /\ pc' = "returned"
    /\ status' = "done"
    /\ UNCHANGED <<projectInfo, ip, trace, dirs, files, issued, thrown,
                   fsFailures, warnings, args, snapshot>>

NextAddDomain ==
    \/ addDomainCommand_checks
    \/ showInputBox_validateInput
    \/ showInputBox_accept
    \/ showInputBox_dismiss
    \/ withProgress_createDomainStructure
    \/ withProgress_generateDomainFiles
    \/ addDomainCommand_showInformationMessage

SpecAddDomain == InitAddDomain /\ [][NextAddDomain]_vars

(***************************************************************************)
(* TemplateEngine.render                                                   *)
(***************************************************************************)
MaxPieces == 3

\* a JavaScript value: its type, the characters of String(value), its
\* truthiness, whether String(value) throws, and the properties value[key]
\* finds
JsValue(t, chars, truthy, throws, props) ==
    [t |-> t, chars |-> chars, str |-> Join(chars), truthy |-> truthy,
     throws |-> throws, props |-> props]

NoProps == [k \in {} |-> 0]

Undefined == JsValue("undefined", <<"undefined">>, FALSE, FALSE, NoProps)

Null == JsValue("null", <<"null">>, FALSE, FALSE, NoProps)

NumberOf(n) == JsValue("number", <<ToString(n)>>, n # 0, FALSE, NoProps)

StringOf(chars) ==
    JsValue("string", chars, chars # <<>>, FALSE,
            [k \in {"length"} |-> NumberOf(Len(chars))])

ObjectOf(props) ==
    JsValue("object", <<"[object Object]">>, TRUE, FALSE, props)

\* Object.create(null): String(value) throws a TypeError
BareObject == JsValue("object", <<>>, TRUE, TRUE, NoProps)

\* current[key] of a value that is neither undefined nor null
Get(value, key) ==
    IF key \in DOMAIN value.props THEN value.props[key] ELSE Undefined

\* path.split('.')
RECURSIVE split(_)
split(path) ==
    IF \A i \in 1..Len(path) : path[i] # "." THEN <<path>>
    ELSE LET dot == CHOOSE i \in 1..Len(path) :
                      /\ path[i] = "."
                      /\ \A j \in 1..(i - 1) : path[j] # "."
         IN  <<SubSeq(path, 1, dot - 1)>>
             \o split(SubSeq(path, dot + 1, Len(path)))

\* the reduce of getNestedProperty
RECURSIVE reduce(_, _)
reduce(current, keys) ==
    IF keys = <<>> THEN current
    ELSE reduce(IF current.truthy
                   /\ Get(current, Join(Head(keys))).t # "undefined"
                THEN Get(current, Join(Head(keys)))
                ELSE Undefined,
                Tail(keys))

getNestedProperty(obj, path) == reduce(obj, split(path))

\* the matches of /\$\{([^}]+)\}/g in a template, with the text between them
RECURSIVE Matches(_)
Matches(template) ==
    IF template = <<>> THEN <<>>
    ELSE LET closing == { j \in 3..Len(template) : template[j] = "}" }
             end == IF closing = {} THEN 0
                    ELSE CHOOSE j \in closing : \A k \in closing : j <= k
         IN  IF /\ Len(template) >= 4
                /\ template[1] = "$"
                /\ template[2] = "{"
                /\ end > 3
             THEN << [placeholder |-> TRUE,
                      match |-> SubSeq(template, 1, end),
                      key |-> SubSeq(template, 3, end - 1)] >>
                  \o Matches(SubSeq(template, end + 1, Len(template)))
             ELSE << [placeholder |-> FALSE,
                      match |-> <<Head(template)>>,
                      key |-> <<>>] >>
                  \o Matches(Tail(template))

\* the replacer callback of interpolate: what it returns and what it warns
replacer(match, key, data) ==
    LET value == getNestedProperty(data, trim(key)) IN
    IF value.t = "undefined" THEN [out |-> match, warn |-> <<>>]
    ELSE IF value.throws
    THEN [out |-> match,
          warn |-> << "Template interpolation warning: Could not resolve "
                        \o Join(key) >>]
    ELSE [out |-> <<value.str>>, warn |-> <<>>]

interpolate(template, data) ==
    LET ms == Matches(template)
        rs == [i \in 1..Len(ms) |->
                 IF ms[i].placeholder
                 THEN replacer(ms[i].match, ms[i].key, data)
                 ELSE [out |-> ms[i].match, warn |-> <<>>]]
    IN  [output |-> Flatten([i \in 1..Len(rs) |-> rs[i].out]),
         warnings |-> Flatten([i \in 1..Len(rs) |-> rs[i].warn])]

\* the contexts render is given
Contexts ==
    { ObjectOf([k \in {"a", "b", "s", "z", "o"} |->
                  CASE k = "a" -> StringOf(<<"A">>)
                    [] k = "b" -> ObjectOf([c \in {"c"} |-> StringOf(<<"C">>)])
                    [] k = "s" -> StringOf(<<>>)
                    [] k = "z" -> Null
                    [] k = "o" -> BareObject]),
      ObjectOf([k \in {"a", "s"} |->
                  CASE k = "a" -> NumberOf(0)
                    [] k = "s" -> StringOf(<<"x", "y">>)]),
      ObjectOf(NoProps) }

\* the pieces templates are made of: text, stray delimiters, placeholders
Pieces ==
    { <<"x">>, <<"$">>, <<"{">>, <<"}">>,
      <<"$", "{", "a", "}">>,
      <<"$", "{", " ", "b", ".", "c", " ", "}">>,
      <<"$", "{", "s", ".", "length", "}">>,
      <<"$", "{", "m", "}">>,
      <<"$", "{", "z", ".", "k", "}">>,
      <<"$", "{", "o", "}">> }

Templates == { Flatten(ps) : ps \in UNION { [1..n -> Pieces] : n \in 1..MaxPieces } }

templatePath == <<"src", "templates", "base", "README.md.template">>

InitRender ==
    /\ args \in [templatePath : {templatePath}, data : Contexts]
    /\ \E template \in Templates : \E exists \in BOOLEAN :
         /\ snapshot = [template |-> template]
         /\ files = IF exists
                    THEN [p \in {templatePath} |-> Text("template")]
                    ELSE NoFiles
    /\ dirs = Ancestors(dirname(templatePath))
    /\ locals = [templateContent |-> <<>>, output |-> <<>>]
    /\ pc = "readFile"
    /\ ip = 1
    /\ status = "running"
    /\ thrown = <<>>
    /\ issued = <<>>
    /\ projectInfo = <<>>
    /\ trace = <<>>
    /\ fsFailures = <<>>
    /\ warnings = <<>>

\* FileUtils.readFile: readFileSync, or the error wrapped by readFile
readFile(path, fs, content) ==
    IF path \in DOMAIN fs
    THEN { [ok |-> TRUE, content |-> content, error |-> <<>>] }
         \cup { [ok |-> FALSE, content |-> <<>>,
                 error |-> <<"Failed to read file ", PathStr(path), ": ">>
                             \o ErrStr(<<e>>)]
                : e \in {"EACCES: permission denied"} }
    ELSE { [ok |-> FALSE, content |-> <<>>,
            error |-> <<"Failed to read file ", PathStr(path), ": ">>
                        \o ErrStr(<<"ENOENT: no such file or directory">>)] }

\* const templateContent = await FileUtils.readFile(templatePath), and the
\* catch of render around it
render_readFile ==
    /\ status = "running"
    /\ pc = "readFile"
    /\ \E r \in readFile(args.templatePath, files, snapshot.template) :
         IF r.ok
         THEN /\ locals' = [locals EXCEPT !.templateContent = r.content]
              /\ pc' = "interpolate"
              /\ UNCHANGED <<status, thrown>>
         ELSE /\ status' = "failed"
              /\ thrown' = <<"Failed to render template ",
                             PathStr(args.templatePath), ": ">>
                             \o ErrStr(r.error)
              /\ UNCHANGED <<locals, pc>>
    /\ UNCHANGED <<projectInfo, ip, trace, dirs, files, issued, fsFailures,
                   warnings, args, snapshot>>

\* return this.interpolate(templateContent, data)
render_interpolate ==
    /\ status = "running"
    /\ pc = "interpolate"
    /\ \E r \in {interpolate(locals.templateContent, args.data)} :
         /\ locals' = [locals EXCEPT !.output = r.output]
         /\ warnings' = warnings \o r.warnings
    /\ pc' = "returned"
    /\ status' = "done"
    /\ UNCHANGED <<projectInfo, ip, trace, dirs, files, issued, thrown,
                   fsFailures, args, snapshot>>

NextRender ==
    \/ render_readFile
    \/ render_interpolate

SpecRender == InitRender /\ [][NextRender]_vars

(***************************************************************************)
(* The capitalized name of a domain, site by site                          *)
(***************************************************************************)
MaxName == 3

\* raw names: lower-case and upper-case letters, a digit
RawNames == UNION { [1..n -> {"o", "r", "D", "1"}] : n \in 1..MaxName }

\* TemplateEngine.capitalize(str)
capitalize(str) ==
    IF str = <<>> THEN ""
    ELSE toUpperCase(Head(str)) \o Join(LowerCased(Tail(str)))

\* the generators that derive the capitalized name inline
InlineSites == {"EntityGenerator", "UseCaseGenerator", "RepositoryGenerator",
                "ControllerGenerator", "RoutesGenerator", "BaseFileGenerator"}

Sites == InlineSites \cup {"TemplateEngine"}

InitCapitalize ==
    /\ args \in [domain : RawNames]
    /\ locals = [site \in {} |-> ""]
    /\ snapshot = <<>>
    /\ pc = "generate"
    /\ ip = 1
    /\ status = "running"
    /\ thrown = <<>>
    /\ dirs = {}
    /\ files = NoFiles
    /\ issued = <<>>
    /\ projectInfo = <<>>
    /\ trace = <<>>
    /\ fsFailures = <<>>
    /\ warnings = <<>>

\* const capitalizedDomain = domain.charAt(0).toUpperCase() + domain.slice(1)
generateForDomain_capitalizedDomain ==
    /\ \E site \in InlineSites \ DOMAIN locals :
         locals' = [s \in DOMAIN locals \cup {site} |->
                      IF s = site THEN capitalizedDomain(args.domain)
                      ELSE locals[s]]
    /\ UNCHANGED <<projectInfo, pc, ip, trace, dirs, files, issued, status,
                   thrown, fsFailures, warnings, args, snapshot>>

\* capitalizedName: this.capitalize(domain) of createTemplateData
createTemplateData_capitalizedName ==
    /\ "TemplateEngine" \notin DOMAIN locals
    /\ locals' = [s \in DOMAIN locals \cup {"TemplateEngine"} |->
                    IF s = "TemplateEngine" THEN capitalize(args.domain)
                    ELSE locals[s]]
    /\ UNCHANGED <<projectInfo, pc, ip, trace, dirs, files, issued, status,
                   thrown, fsFailures, warnings, args, snapshot>>

NextCapitalize ==
    \/ generateForDomain_capitalizedDomain
    \/ createTemplateData_capitalizedName

SpecCapitalize == InitCapitalize /\ [][NextCapitalize]_vars

(***************************************************************************)
(* The entity class EntityGenerator.createEntityContent emits              *)
(***************************************************************************)
\* new Date(value): the time value of a Date, Invalid Date for undefined
NewDate(value) ==
    IF value.valid THEN [valid |-> TRUE, time |-> value.time]
    ELSE [valid |-> FALSE, time |-> 0]

NoDate == [valid |-> FALSE, time |-> 0]

\* constructor(id, name) at the time `now`
Entity(id, name, now) ==
    [id |-> id, name |-> name,
     createdAt |-> [valid |-> TRUE, time |-> now],
     updatedAt |-> [valid |-> TRUE, time |-> now]]

\* this.id && this.name && this.name.trim().length > 0
isValid(entity) ==
    /\ entity.id.truthy
    /\ entity.name.truthy
    /\ Len(trim(entity.name.chars)) > 0

\* static create(id, name): <<>> stands for the throw of 'Invalid <d> data'
create(id, name, now) ==
    IF isValid(Entity(id, name, now)) THEN << Entity(id, name, now) >>
    ELSE <<>>

toJSON(entity) ==
    [id |-> entity.id, name |-> entity.name,
     createdAt |-> entity.createdAt, updatedAt |-> entity.updatedAt]

\* a fromJSON that goes through create
fromJSON_viaCreate(json, now) ==
    IF create(json.id, json.name, now) = <<>> THEN <<>>
    ELSE << [Entity(json.id, json.name, now) EXCEPT
               !.createdAt = NewDate(json.createdAt),
               !.updatedAt = NewDate(json.updatedAt)] >>

\* static fromJSON(json): the constructor, then the two dates
fromJSON(json, now) ==
    << [Entity(json.id, json.name, now) EXCEPT
          !.createdAt = NewDate(json.createdAt),
          !.updatedAt = NewDate(json.updatedAt)] >>

\* the ids and names the class is called with
Ids == { StringOf(<<"7">>), StringOf(<<>>), NumberOf(7), NumberOf(0),
         Undefined, Null }

Names == { StringOf(<<"A", "n", "n">>), StringOf(<<" ", "A", " ">>),
           StringOf(<<>>), StringOf(<<" ">>), Undefined }

\* the caller either creates an entity and serializes it, or hands data of
\* its own to fromJSON
InitEntity ==
    /\ args \in [id : Ids, name : Names, now : {1, 2},
                 domain : {"orders"}]
    /\ \E route \in {"create", "fromJSON"} :
         /\ snapshot = [route |-> route]
         /\ pc = route
         /\ locals = [entity |-> <<>>, restored |-> <<>>,
                      json |-> IF route = "create" THEN <<>>
                               ELSE << [id |-> args.id, name |-> args.name,
                                        createdAt |-> NoDate,
                                        updatedAt |-> NoDate] >>]
    /\ ip = 1
    /\ status = "running"
    /\ thrown = <<>>
    /\ dirs = {}
    /\ files = NoFiles
    /\ issued = <<>>
    /\ projectInfo = <<>>
    /\ trace = <<>>
    /\ fsFailures = <<>>
    /\ warnings = <<>>

Entity_create ==
    /\ status = "running"
    /\ pc = "create"
    /\ \E r \in {create(args.id, args.name, args.now)} :
         IF r # <<>>
         THEN /\ locals' = [locals EXCEPT !.entity = r]
              /\ pc' = "toJSON"
              /\ UNCHANGED <<status, thrown>>
         ELSE /\ status' = "failed"
              /\ thrown' = <<"Invalid ", args.domain, " data">>
              /\ UNCHANGED <<locals, pc>>
    /\ UNCHANGED <<projectInfo, ip, trace, dirs, files, issued, fsFailures,
                   warnings, args, snapshot>>

Entity_toJSON ==
    /\ status = "running"
    /\ pc = "toJSON"
    /\ locals' = [locals EXCEPT !.json = << toJSON(locals.entity[1]) >>]
    /\ pc' = "fromJSON"
    /\ UNCHANGED <<projectInfo, ip, trace, dirs, files, issued, status,
                   thrown, fsFailures, warnings, args, snapshot>>

Entity_fromJSON ==
    /\ status = "running"
    /\ pc = "fromJSON"
    /\ \E r \in {fromJSON(locals.json[1], 3)} :
         IF r # <<>>
         THEN /\ locals' = [locals EXCEPT !.restored = r]
              /\ pc' = "returned"
              /\ status' = "done"
              /\ UNCHANGED thrown
         ELSE /\ status' = "failed"
              /\ thrown' = <<"Invalid ", args.domain, " data">>
              /\ UNCHANGED <<locals, pc>>
    /\ UNCHANGED <<projectInfo, ip, trace, dirs, files, issued, fsFailures,
                   warnings, args, snapshot>>

NextEntity ==
    \/ Entity_create
    \/ Entity_toJSON
    \/ Entity_fromJSON

SpecEntity == InitEntity /\ [][NextEntity]_vars

(***************************************************************************)
(* The generated domain at run time: entity, in-memory repository, use     *)
(* cases, controller                                                       *)
(***************************************************************************)
NameLimit == 255

\* updateName(newName): <<>> stands for the throw of 'Name cannot be empty'
updateName(entity, newName, now) ==
    IF ~newName.truthy \/ Len(trim(newName.chars)) = 0 THEN <<>>
    ELSE << [entity EXCEPT !.name = newName,
                           !.updatedAt = [valid |-> TRUE, time |-> now]] >>

\* update(data): a truthy data.name goes to updateName
update(entity, data, now) ==
    IF "name" \in DOMAIN data /\ data.name.truthy
    THEN updateName(entity, data.name, now)
    ELSE << [entity EXCEPT !.updatedAt = [valid |-> TRUE, time |-> now]] >>

\* the repository of the constructor: an empty Map, currentId = 1
EmptyRepository == [items |-> [id \in {} |-> 0], currentId |-> 1]

\* this.<domain>s.set(id, value)
MapSet(items, id, value) ==
    [k \in DOMAIN items \cup {id} |-> IF k = id THEN value ELSE items[k]]

\* this.<domain>s.delete(id)
MapDelete(items, id) == [k \in DOMAIN items \ {id} |-> items[k]]

\* generateId(): (this.currentId++).toString()
generateId(repo) ==
    [id |-> StringOf(<<ToString(repo.currentId)>>),
     repo |-> [repo EXCEPT !.currentId = @ + 1]]

\* save(entity): the id given where there is none, the Map entry set, the
\* entity read back
save(repo, entity) ==
    LET g == generateId(repo)
        id == IF entity.id.truthy THEN entity.id ELSE g.id
        after == IF entity.id.truthy THEN repo ELSE g.repo
        stored == toJSON([entity EXCEPT !.id = id])
    IN  [repo |-> [after EXCEPT !.items = MapSet(after.items, id, stored)],
         entity |-> fromJSON(stored, 0)[1]]

\* findById(id): <<>> stands for null
findById(repo, id) ==
    IF id \in DOMAIN repo.items THEN fromJSON(repo.items[id], 0) ELSE <<>>

\* delete(id)
delete(repo, id) == [repo EXCEPT !.items = MapDelete(repo.items, id)]

\* clear()
clear(repo) == [items |-> [id \in {} |-> 0], currentId |-> 1]

\* data[key] of a request body or of update data
Prop(data, key) == IF key \in DOMAIN data THEN data[key] ELSE Undefined

\* what an execute leaves: whether it returned, the value or the error
\* message, the repository, the calls it made in order, the events published
Effect(ok, value, error, repo, calls, events) ==
    [ok |-> ok, value |-> value, error |-> error, repo |-> repo,
     calls |-> calls, events |-> events]

\* the event the use cases hand to eventBus.publish
Event(type, aggregateId, data, now) ==
    [type |-> type, aggregateId |-> aggregateId, data |-> data,
     timestamp |-> now, version |-> 1]

\* validateInput of the create use case: <<>> when it returns
validateInput_create(cap, body) ==
    IF ~body.present THEN <<cap, " data is ", "required">>
    ELSE IF \/ ~Prop(body.fields, "name").truthy
            \/ Len(trim(Prop(body.fields, "name").chars)) = 0
    THEN <<cap, " name is ", "required">>
    ELSE IF Len(Prop(body.fields, "name").chars) > NameLimit
    THEN <<cap, " name is too long">>
    ELSE <<>>

\* the create use case with the event published before the entity is saved
CreateUseCase_execute_publishFirst(env, body, repo) ==
    LET cap == capitalizedDomain(env.domain)
        wrap(inner) == <<"Failed to create ", Join(env.domain), ": ">> \o inner
        invalid == validateInput_create(cap, body)
        id == IF Prop(body.fields, "id").truthy THEN Prop(body.fields, "id")
              ELSE env.newId
        made == create(id, Prop(body.fields, "name"), env.now)
        saved == save(repo, made[1])
        event == Event(cap \o "Created", made[1].id, toJSON(made[1]), env.now)
    IN  IF invalid # <<>>
        THEN Effect(FALSE, <<>>, wrap(invalid), repo, <<>>, <<>>)
        ELSE IF made = <<>>
        THEN Effect(FALSE, <<>>, wrap(<<"Invalid ", Join(env.domain), " data">>),
                    repo, <<>>, <<>>)
        ELSE IF env.eventBus = "rejecting"
        THEN Effect(FALSE, <<>>, wrap(<<"handler failed">>), repo,
                    <<"publish">>, <<>>)
        ELSE IF env.repositoryFails
        THEN Effect(FALSE, <<>>, wrap(<<"connection lost">>), repo,
                    IF env.eventBus = "null" THEN <<"save">>
                    ELSE <<"publish", "save">>,
                    IF env.eventBus = "null" THEN <<>> ELSE <<event>>)
        ELSE Effect(TRUE, <<saved.entity>>, <<>>, saved.repo,
                    IF env.eventBus = "null" THEN <<"save">>
                    ELSE <<"publish", "save">>,
                    IF env.eventBus = "null" THEN <<>> ELSE <<event>>)

\* execute of the create use case: validateInput, <Cap>.create, save, publish
\* when there is an event bus; the catch wraps the message
CreateUseCase_execute(env, body, repo) ==
    LET cap == capitalizedDomain(env.domain)
        wrap(inner) == <<"Failed to create ", Join(env.domain), ": ">> \o inner
        invalid == validateInput_create(cap, body)
        id == IF Prop(body.fields, "id").truthy THEN Prop(body.fields, "id")
              ELSE env.newId
        made == create(id, Prop(body.fields, "name"), env.now)
        saved == save(repo, made[1])
        event == Event(cap \o "Created", saved.entity.id,
                       toJSON(saved.entity), env.now)
    IN  IF invalid # <<>>
        THEN Effect(FALSE, <<>>, wrap(invalid), repo, <<>>, <<>>)
        ELSE IF made = <<>>
        THEN Effect(FALSE, <<>>, wrap(<<"Invalid ", Join(env.domain), " data">>),
                    repo, <<>>, <<>>)
        ELSE IF env.repositoryFails
        THEN Effect(FALSE, <<>>, wrap(<<"connection lost">>), repo,
                    <<"save">>, <<>>)
        ELSE IF env.eventBus = "null"
        THEN Effect(TRUE, <<saved.entity>>, <<>>, saved.repo, <<"save">>, <<>>)
        ELSE IF env.eventBus = "rejecting"
        THEN Effect(FALSE, <<>>, wrap(<<"handler failed">>), saved.repo,
                    <<"save", "publish">>, <<>>)
        ELSE Effect(TRUE, <<saved.entity>>, <<>>, saved.repo,
                    <<"save", "publish">>, <<event>>)

\* execute of the update use case: findById, entity.update, save, publish
UpdateUseCase_execute(env, id, data, repo) ==
    LET cap == capitalizedDomain(env.domain)
        wrap(inner) == <<"Failed to update ", Join(env.domain), ": ">> \o inner
        existing == findById(repo, id)
        updated == update(existing[1], data, env.now)
        saved == save(repo, updated[1])
        event == Event(cap \o "Updated", saved.entity.id,
                       toJSON(saved.entity), env.now)
    IN  IF existing = <<>>
        THEN Effect(FALSE, <<>>, wrap(<<cap, " ", "not found">>), repo,
                    <<"findById">>, <<>>)
        ELSE IF updated = <<>>
        THEN Effect(FALSE, <<>>, wrap(<<"Name cannot be empty">>), repo,
                    <<"findById">>, <<>>)
        ELSE IF env.repositoryFails
        THEN Effect(FALSE, <<>>, wrap(<<"connection lost">>), repo,
                    <<"findById", "save">>, <<>>)
        ELSE IF env.eventBus = "null"
        THEN Effect(TRUE, <<saved.entity>>, <<>>, saved.repo,
                    <<"findById", "save">>, <<>>)
        ELSE IF env.eventBus = "rejecting"
        THEN Effect(FALSE, <<>>, wrap(<<"handler failed">>), saved.repo,
                    <<"findById", "save", "publish">>, <<>>)
        ELSE Effect(TRUE, <<saved.entity>>, <<>>, saved.repo,
                    <<"findById", "save", "publish">>, <<event>>)

\* execute of the delete use case: findById, delete, publish
DeleteUseCase_execute(env, id, repo) ==
    LET cap == capitalizedDomain(env.domain)
        wrap(inner) == <<"Failed to delete ", Join(env.domain), ": ">> \o inner
        existing == findById(repo, id)
        event == Event(cap \o "Deleted", id, [id |-> id], env.now)
    IN  IF existing = <<>>
        THEN Effect(FALSE, <<>>, wrap(<<cap, " ", "not found">>), repo,
                    <<"findById">>, <<>>)
        ELSE IF env.repositoryFails
        THEN Effect(FALSE, <<>>, wrap(<<"connection lost">>), repo,
                    <<"findById", "delete">>, <<>>)
        ELSE IF env.eventBus = "null"
        THEN Effect(TRUE, <<[id |-> id, deleted |-> TRUE]>>, <<>>,
                    delete(repo, id), <<"findById", "delete">>, <<>>)
        ELSE IF env.eventBus = "rejecting"
        THEN Effect(FALSE, <<>>, wrap(<<"handler failed">>), delete(repo, id),
                    <<"findById", "delete", "publish">>, <<>>)
        ELSE Effect(TRUE, <<[id |-> id, deleted |-> TRUE]>>, <<>>,
                    delete(repo, id), <<"findById", "delete", "publish">>,
                    <<event>>)

\* execute of the find-by-id use case
FindByIdUseCase_execute(env, id, repo) ==
    LET cap == capitalizedDomain(env.domain)
        wrap(inner) == <<"Failed to find ", Join(env.domain), ": ">> \o inner
        found == findById(repo, id)
    IN  IF ~id.truthy
        THEN Effect(FALSE, <<>>, wrap(<<"ID is ", "required">>), repo, <<>>, <<>>)
        ELSE IF env.repositoryFails
        THEN Effect(FALSE, <<>>, wrap(<<"connection lost">>), repo,
                    <<"findById">>, <<>>)
        ELSE IF found = <<>>
        THEN Effect(FALSE, <<>>, wrap(<<cap, " ", "not found">>), repo,
                    <<"findById">>, <<>>)
        ELSE Effect(TRUE, found, <<>>, repo, <<"findById">>, <<>>)

\* execute of the find-all use case
FindAllUseCase_execute(env, repo) ==
    LET wrap(inner) == <<"Failed to find ", Join(env.domain), "s: ">> \o inner
    IN  IF env.repositoryFails
        THEN Effect(FALSE, <<>>, wrap(<<"connection lost">>), repo,
                    <<"findAll">>, <<>>)
        ELSE Effect(TRUE, <<>>, <<>>, repo, <<"findAll">>, <<>>)

\* error.message.includes(keyword); a message is a sequence of pieces and the
\* keywords the controller looks for are pieces of their own
includes(message, keyword) == \E i \in 1..Len(message) : message[i] = keyword

\* res.status(status).json({ code, ... })
Response(statusCode, code) == [status |-> statusCode, code |-> code]

\* an execute that was never called
NotCalled(repo) == Effect(TRUE, <<>>, <<>>, repo, <<>>, <<>>)

\* what a controller operation leaves: the response and the use case's effect
Handled(response, effect) == [response |-> response, effect |-> effect]

\* async create(req, res)
Controller_create(env, req, repo) ==
    LET e == CreateUseCase_execute(env, req.body, repo)
    IN  IF ~req.body.present
        THEN Handled(Response(400, "MISSING_BODY"), NotCalled(repo))
        ELSE IF e.ok THEN Handled(Response(201, ""), e)
        ELSE IF includes(e.error, "required") \/ includes(e.error, "validation")
        THEN Handled(Response(400, "VALIDATION_ERROR"), e)
        ELSE Handled(Response(500, "INTERNAL_ERROR"), e)

\* async getAll(req, res)
Controller_getAll(env, req, repo) ==
    LET e == FindAllUseCase_execute(env, repo)
    IN  IF e.ok THEN Handled(Response(200, ""), e)
        ELSE Handled(Response(500, "FETCH_ERROR"), e)

\* async getById(req, res)
Controller_getById(env, req, repo) ==
    LET e == FindByIdUseCase_execute(env, req.id, repo)
    IN  IF ~req.id.truthy
        THEN Handled(Response(400, "MISSING_ID"), NotCalled(repo))
        ELSE IF e.ok /\ e.value = <<>>
        THEN Handled(Response(404, "NOT_FOUND"), e)
        ELSE IF e.ok THEN Handled(Response(200, ""), e)
        ELSE IF includes(e.error, "not found")
        THEN Handled(Response(404, "NOT_FOUND"), e)
        ELSE Handled(Response(500, "FETCH_ERROR"), e)

\* async update(req, res)
Controller_update(env, req, repo) ==
    LET e == UpdateUseCase_execute(env, req.id, req.body.fields, repo)
    IN  IF ~req.id.truthy
        THEN Handled(Response(400, "MISSING_ID"), NotCalled(repo))
        ELSE IF ~req.body.present \/ DOMAIN req.body.fields = {}
        THEN Handled(Response(400, "MISSING_UPDATE_DATA"), NotCalled(repo))
        ELSE IF e.ok THEN Handled(Response(200, ""), e)
        ELSE IF includes(e.error, "not found")
        THEN Handled(Response(404, "NOT_FOUND"), e)
        ELSE IF includes(e.error, "validation")
        THEN Handled(Response(400, "VALIDATION_ERROR"), e)
        ELSE Handled(Response(500, "UPDATE_ERROR"), e)

\* async delete(req, res)
Controller_delete(env, req, repo) ==
    LET e == DeleteUseCase_execute(env, req.id, repo)
    IN  IF ~req.id.truthy
        THEN Handled(Response(400, "MISSING_ID"), NotCalled(repo))
        ELSE IF e.ok THEN Handled(Response(200, ""), e)
        ELSE IF includes(e.error, "not found")
        THEN Handled(Response(404, "NOT_FOUND"), e)
        ELSE Handled(Response(500, "DELETE_ERROR"), e)

(* The requests a generated controller serves *)
MaxRequests == 2

\* a name one character longer than validateInput accepts
LongName == StringOf([i \in 1..(NameLimit + 1) |-> "x"])

RequestNames == { StringOf(<<"A", "n", "n">>), StringOf(<<"B", "o">>),
                  StringOf(<<>>), StringOf(<<" ">>), LongName }

RequestIds == { StringOf(<<"1">>), StringOf(<<"9">>) }

\* req.body: absent, or an object with some of id and name
Bodies ==
    { [present |-> FALSE, fields |-> NoProps] }
    \cup { [present |-> TRUE, fields |-> f] :
             f \in UNION { [keys -> RequestIds \cup RequestNames] :
                             keys \in SUBSET {"id", "name"} } }

RequestBodies ==
    { b \in Bodies :
        /\ "id" \in DOMAIN b.fields => b.fields["id"] = StringOf(<<"1">>)
        /\ "name" \in DOMAIN b.fields => b.fields["name"] \in RequestNames }

\* req.params.id
RequestParams == RequestIds \cup { StringOf(<<>>) }

NoBody == [present |-> FALSE, fields |-> NoProps]

\* the requests that reach each route: POST / has no id parameter, GET and
\* DELETE carry no body
Requests(op) ==
    CASE op = "create" -> [id : {Undefined}, body : RequestBodies]
      [] op = "update" -> [id : RequestParams, body : RequestBodies]
      [] op = "getAll" -> [id : {Undefined}, body : {NoBody}]
      [] OTHER -> [id : RequestParams, body : {NoBody}]

\* the controller is constructed over an empty repository, with no event bus,
\* with one whose handlers resolve or with one that has a rejecting handler
InitRuntime ==
    /\ args \in [domain : {<<"o", "r", "d", "e", "r">>},
                 eventBus : {"null", "resolving", "rejecting"}]
    /\ locals = [repo |-> EmptyRepository, served |-> 0]
    /\ snapshot = <<>>
    /\ pc = "serving"
    /\ projectInfo = <<>>
    /\ ip = 1
    /\ trace = <<>>
    /\ dirs = {}
    /\ files = NoFiles
    /\ issued = <<>>
    /\ status = "running"
    /\ thrown = <<>>
    /\ fsFailures = <<>>
    /\ warnings = <<>>

\* the dependencies of one request: the bus, the clock, the id the use case
\* would generate, and whether the repository call rejects
Env(repositoryFails) ==
    [domain |-> args.domain, eventBus |-> args.eventBus,
     now |-> locals.served + 1,
     newId |-> StringOf(<<"t", ToString(locals.served + 1)>>),
     repositoryFails |-> repositoryFails]

\* one request served: the repository the use case left, and a record of the
\* request, the repository before it, the effect and the response
Serve(op, req, env, handled) ==
    /\ locals' = [repo |-> handled.effect.repo, served |-> locals.served + 1]
    /\ snapshot' = [op |-> op, req |-> req, env |-> env, before |-> locals.repo,
                    effect |-> handled.effect, response |-> handled.response]
    /\ UNCHANGED <<projectInfo, pc, ip, trace, dirs, files, issued, status,
                   thrown, fsFailures, warnings, args>>

Request_create ==
    /\ pc = "serving" /\ locals.served < MaxRequests
    /\ \E req \in Requests("create"), fails \in BOOLEAN :
         \E h \in { Controller_create(Env(fails), req, locals.repo) } :
            Serve("create", req, Env(fails), h)

Request_getAll ==
    /\ pc = "serving" /\ locals.served < MaxRequests
    /\ \E req \in Requests("getAll"), fails \in BOOLEAN :
         \E h \in { Controller_getAll(Env(fails), req, locals.repo) } :
            Serve("getAll", req, Env(fails), h)

Request_getById ==
    /\ pc = "serving" /\ locals.served < MaxRequests
    /\ \E req \in Requests("getById"), fails \in BOOLEAN :
         \E h \in { Controller_getById(Env(fails), req, locals.repo) } :
            Serve("getById", req, Env(fails), h)

Request_update ==
    /\ pc = "serving" /\ locals.served < MaxRequests
    /\ \E req \in Requests("update"), fails \in BOOLEAN :
         \E h \in { Controller_update(Env(fails), req, locals.repo) } :
            Serve("update", req, Env(fails), h)

Request_delete ==
    /\ pc = "serving" /\ locals.served < MaxRequests
    /\ \E req \in Requests("delete"), fails \in BOOLEAN :
         \E h \in { Controller_delete(Env(fails), req, locals.repo) } :
            Serve("delete", req, Env(fails), h)

NextRuntime ==
    \/ Request_create
    \/ Request_getAll
    \/ Request_getById
    \/ Request_update
    \/ Request_delete

SpecRuntime == InitRuntime /\ [][NextRuntime]_vars


(* The generated in-memory repository called directly *)
MaxOperations == 3

MaxSeed == 2

\* update(id, updateData) of the repository: the stored object spread under
\* the update data, stored again under the same key; <<>> for null
MemoryRepository_update(repo, id, updateData, now) ==
    IF id \notin DOMAIN repo.items THEN [repo |-> repo, entity |-> <<>>]
    ELSE LET existing == repo.items[id]
             updated == [id |-> IF "id" \in DOMAIN updateData
                                THEN updateData["id"] ELSE existing.id,
                         name |-> IF "name" \in DOMAIN updateData
                                  THEN updateData["name"] ELSE existing.name,
                         createdAt |-> existing.createdAt,
                         updatedAt |-> [valid |-> TRUE, time |-> now]]
         IN  [repo |-> [repo EXCEPT !.items = MapSet(repo.items, id, updated)],
              entity |-> fromJSON(updated, now)]

\* seed(data): each element is created, with a generated id when it carries
\* none, and saved; a rejected create ends the forEach with its throw
RECURSIVE seed(_, _, _)
seed(repo, data, now) ==
    IF data = <<>> THEN [repo |-> repo, ok |-> TRUE]
    ELSE \* data.id || this.generateId()
         LET g == generateId(repo)
             given == Prop(Head(data), "id").truthy
             id == IF given THEN Prop(Head(data), "id") ELSE g.id
             drawn == IF given THEN repo ELSE g.repo
             made == create(id, Prop(Head(data), "name"), now)
         IN  IF made = <<>> THEN [repo |-> drawn, ok |-> FALSE]
             ELSE CHOOSE r \in { seed(s.repo, Tail(data), now) :
                                   s \in { save(drawn, made[1]) } } : TRUE

\* the entities and data the repository is called with
EntityIds == { Undefined, StringOf(<<"1">>), StringOf(<<"2">>) }

EntityNames == { StringOf(<<"A", "n", "n">>), StringOf(<<"B", "o">>) }

UpdateData == { f \in UNION { [keys -> EntityNames] : keys \in SUBSET {"name"} } : TRUE }

SeedData ==
    { f \in UNION { [keys -> EntityIds \cup EntityNames] : keys \in {{"name"}, {"id", "name"}} } :
        /\ f["name"] = StringOf(<<"A", "n", "n">>)
        /\ "id" \in DOMAIN f => f["id"] = StringOf(<<"1">>) }

SeedLists == UNION { [1..n -> SeedData] : n \in 1..MaxSeed }

InitRepository ==
    /\ args = <<>>
    /\ locals = [repo |-> EmptyRepository, done |-> 0]
    /\ snapshot = <<>>
    /\ pc = "repository"
    /\ projectInfo = <<>>
    /\ ip = 1
    /\ trace = <<>>
    /\ dirs = {}
    /\ files = NoFiles
    /\ issued = <<>>
    /\ status = "running"
    /\ thrown = <<>>
    /\ fsFailures = <<>>
    /\ warnings = <<>>

\* one repository call made: the repository it left and a record of the call
Called(op, input, after) ==
    /\ locals' = [repo |-> after, done |-> locals.done + 1]
    /\ snapshot' = [op |-> op, input |-> input, before |-> locals.repo]
    /\ UNCHANGED <<projectInfo, pc, ip, trace, dirs, files, issued, status,
                   thrown, fsFailures, warnings, args>>

MemoryRepository_save ==
    /\ pc = "repository" /\ locals.done < MaxOperations
    /\ \E id \in EntityIds, name \in EntityNames :
         \E e \in { Entity(id, name, locals.done + 1) } :
            Called("save", <<toJSON(e)>>, save(locals.repo, e).repo)

MemoryRepository_updateCall ==
    /\ pc = "repository" /\ locals.done < MaxOperations
    /\ \E id \in EntityIds \ {Undefined}, data \in UpdateData :
         Called("update", <<data>>,
                MemoryRepository_update(locals.repo, id, data, locals.done + 1).repo)

MemoryRepository_delete ==
    /\ pc = "repository" /\ locals.done < MaxOperations
    /\ \E id \in EntityIds \ {Undefined} :
         Called("delete", <<[id |-> id]>>, delete(locals.repo, id))

MemoryRepository_clear ==
    /\ pc = "repository" /\ locals.done < MaxOperations
    /\ Called("clear", <<>>, clear(locals.repo))

MemoryRepository_seed ==
    /\ pc = "repository" /\ locals.done < MaxOperations
    /\ \E data \in SeedLists :
         Called("seed", data, seed(locals.repo, data, locals.done + 1).repo)

NextRepository ==
    \/ MemoryRepository_save
    \/ MemoryRepository_updateCall
    \/ MemoryRepository_delete
    \/ MemoryRepository_clear
    \/ MemoryRepository_seed

SpecRepository == InitRepository /\ [][NextRepository]_vars


(* The created-files lists of DomainGenerator and its five generators *)
MaxRuns == 2

\* path.relative(process.cwd(), path) of every file a list of operations writes
WrittenPaths(ops) == [i \in 1..Len(ops) |-> ops[i].path]

\* the five generators are constructed once, with empty lists
NoFilesCreated ==
    [filesCreated |-> <<>>, entityGenerator |-> <<>>, useCaseGenerator |-> <<>>,
     repositoryGenerator |-> <<>>, controllerGenerator |-> <<>>,
     routesGenerator |-> <<>>]

\* generateDomainFiles: the four generators that run push what they write to
\* their own lists, then the five lists are appended to filesCreated
generateDomainFiles_filesCreated(lists, domain) ==
    LET entity == lists.entityGenerator
                    \o WrittenPaths(EntityGenerator_generateForDomain(domain))
        useCase == lists.useCaseGenerator
                    \o WrittenPaths(UseCaseGenerator_generateForDomain(domain))
        controller == lists.controllerGenerator
                    \o WrittenPaths(ControllerGenerator_generateForDomain(domain))
        routes == lists.routesGenerator
                    \o WrittenPaths(RoutesGenerator_generateForDomain(domain))
    IN  [filesCreated |-> lists.filesCreated \o entity \o useCase
                             \o lists.repositoryGenerator \o controller \o routes,
         entityGenerator |-> entity, useCaseGenerator |-> useCase,
         repositoryGenerator |-> lists.repositoryGenerator,
         controllerGenerator |-> controller, routesGenerator |-> routes]

\* BaseFileGenerator.reset, as generate calls it on the DomainGenerator
reset(lists) == [lists EXCEPT !.filesCreated = <<>>]

InitCreatedFiles ==
    /\ args = <<>>
    /\ locals = [lists |-> NoFilesCreated, runs |-> 0]
    /\ snapshot = <<>>
    /\ pc = "idle"
    /\ projectInfo = <<>>
    /\ ip = 1
    /\ trace = <<>>
    /\ dirs = {}
    /\ files = NoFiles
    /\ issued = <<>>
    /\ status = "running"
    /\ thrown = <<>>
    /\ fsFailures = <<>>
    /\ warnings = <<>>

\* generate(projectInfo, outputPath) is called: reset, then the loop
DomainGenerator_generate_reset ==
    /\ pc = "idle" /\ locals.runs < MaxRuns
    /\ \E domains \in { d \in DomainLists : ValidDomains(d) } :
         args' = [domains |-> domains]
    /\ locals' = [locals EXCEPT !.lists = reset(@)]
    /\ snapshot' = <<>>
    /\ pc' = "generateSingleDomain"
    /\ ip' = 1
    /\ UNCHANGED <<projectInfo, trace, dirs, files, issued, status, thrown,
                   fsFailures, warnings>>

\* one iteration of the loop over projectInfo.domains
DomainGenerator_generateSingleDomain ==
    /\ pc = "generateSingleDomain" /\ ip <= Len(args.domains)
    /\ locals' = [locals EXCEPT
                    !.lists = generateDomainFiles_filesCreated(@, args.domains[ip])]
    /\ ip' = ip + 1
    /\ UNCHANGED <<projectInfo, pc, trace, dirs, files, issued, status, thrown,
                   fsFailures, warnings, args, snapshot>>

\* generate returns; the record keeps the paths written during this call
DomainGenerator_generate_return ==
    /\ pc = "generateSingleDomain" /\ ip > Len(args.domains)
    /\ locals' = [locals EXCEPT !.runs = @ + 1]
    /\ snapshot' =
         [written |-> Flatten([i \in 1..Len(args.domains) |->
                                 WrittenPaths(generateDomainFiles(args.domains[i], <<>>))])]
    /\ pc' = "idle"
    /\ ip' = 1
    /\ UNCHANGED <<projectInfo, trace, dirs, files, issued, status, thrown,
                   fsFailures, warnings, args>>

NextCreatedFiles ==
    \/ DomainGenerator_generate_reset
    \/ DomainGenerator_generateSingleDomain
    \/ DomainGenerator_generate_return

SpecCreatedFiles == InitCreatedFiles /\ [][NextCreatedFiles]_vars


(* generateProjectCommand: target, prompts, overwrite question, generation *)
\* /^[a-z0-9-]+$/.test(value)
IsProjectName(value) ==
    /\ value # <<>>
    /\ \A i \in 1..Len(value) :
         value[i] \in Range(Lower) \cup Range(Digits) \cup {"-"}

\* the validateInput callback of the project name box; "null" stands for null
validateInput_name(value) ==
    IF trim(value) = <<>> THEN "Project name is required"
    ELSE IF ~IsProjectName(value)
    THEN "Use lowercase letters, numbers and hyphens only"
    ELSE "null"

\* the validateInput callback of the domains box
validateInput_domains(value) ==
    IF trim(value) = <<>> THEN "At least one domain is required" ELSE "null"

\* domainsInput.split(',')
RECURSIVE splitCommas(_)
splitCommas(value) ==
    IF \A i \in 1..Len(value) : value[i] # "," THEN <<value>>
    ELSE LET comma == CHOOSE i \in 1..Len(value) :
                        /\ value[i] = ","
                        /\ \A j \in 1..(i - 1) : value[j] # ","
         IN  <<SubSeq(value, 1, comma - 1)>>
             \o splitCommas(SubSeq(value, comma + 1, Len(value)))

\* domainsInput.split(',').map(d => d.trim().toLowerCase())
getProjectInfo_domains(domainsInput) ==
    LET pieces == splitCommas(domainsInput)
    IN  [i \in 1..Len(pieces) |-> LowerCased(trim(pieces[i]))]

\* a projectExists that never finds the project
projectExists_never(ds, fs) == FALSE

\* projectExists: stat of <target>/<name> succeeds
projectExists(ds, fs) == existsSync(<<>>, ds, fs)

\* what the user types into the project name box
TypedProjectNames == { <<"a", "p", "i">>, <<"1", "a">>, <<"-", "a">>,
                       <<"A", "p", "i">>, <<" ">> }

\* what the user types into the domains box
TypedDomains == { <<"u", "s", "e", "r", "s">>,
                  <<"u", "s", "e", "r", "s", ",", " ", "O", "r", "d", "e", "r", "s">>,
                  <<"u", "s", "e", "r", "s", ",">>,
                  <<"u", "s", "e", "r", "s", ",", "u", "s", "e", "r", "s">>,
                  <<" ">> }

\* the specifications of the projects that may stand at <target>/<name>
EarlierProjects ==
    { [domains |-> << <<"u", "s", "e", "r", "s">>,
                      <<"o", "r", "d", "e", "r", "s">> >>,
       includeDocker |-> TRUE, includeTests |-> TRUE, database |-> "mongodb"],
      [domains |-> << <<"u", "s", "e", "r", "s">> >>,
       includeDocker |-> FALSE, includeTests |-> FALSE, database |-> "none"] }

\* generateProject run to its normal return on an empty target
GeneratedFromNothing(pi) ==
    Apply(createProjectStructureOps(pi) \o generateBaseFilesOps(pi)
          \o DomainGenerator_generateOps(pi) \o ConfigGenerator_generateOps(pi)
          \o (IF pi.includeDocker THEN DockerGenerator_generateOps(pi)
              ELSE <<>>)
          \o generateAdditionalFilesOps(pi),
          {}, NoFiles)

\* the command is invoked with or without a target directory; under the name
\* the user will type there is nothing, or a project generated earlier
InitCommand ==
    /\ \/ /\ args \in [target : BOOLEAN, earlier : {<<>>}]
          /\ dirs = {}
          /\ files = NoFiles
       \/ \E pi \in EarlierProjects : \E tree \in { GeneratedFromNothing(pi) } :
            /\ args = [target |-> TRUE, earlier |-> pi]
            /\ dirs = tree.dirs
            /\ files = tree.files
    /\ snapshot = [dirs |-> dirs, files |-> files]
    /\ locals = [name |-> <<>>, domains |-> <<>>, database |-> "",
                 includeDocker |-> FALSE, includeTests |-> FALSE,
                 overwrite |-> ""]
    /\ pc = "getTargetPath"
    /\ ip = 1
    /\ status = "running"
    /\ thrown = <<>>
    /\ issued = <<>>
    /\ projectInfo = <<>>
    /\ trace = <<>>
    /\ fsFailures = <<>>
    /\ warnings = <<>>

\* a step of the command before generation: the next statement and the
\* answers so far
Prompted(next, answers) ==
    /\ pc' = next
    /\ locals' = answers
    /\ UNCHANGED <<projectInfo, ip, trace, dirs, files, issued, status, thrown,
                   fsFailures, warnings, args, snapshot>>

\* an early return of the command
Returned(how) ==
    /\ pc' = "returned"
    /\ status' = how
    /\ UNCHANGED <<projectInfo, ip, trace, dirs, files, issued, thrown,
                   fsFailures, warnings, frame>>

\* const targetPath = await getTargetPath(uri); if (!targetPath) return
generateProjectCommand_getTargetPath ==
    /\ status = "running" /\ pc = "getTargetPath"
    /\ IF args.target THEN Prompted("name", locals) ELSE Returned("cancelled")

\* the name box returns a value validateInput accepts
getProjectInfo_name ==
    /\ status = "running" /\ pc = "name"
    /\ \E value \in TypedProjectNames :
         /\ validateInput_name(value) = "null"
         /\ Prompted("description", [locals EXCEPT !.name = value])

getProjectInfo_description ==
    /\ status = "running" /\ pc = "description"
    /\ Prompted("author", locals)

getProjectInfo_author ==
    /\ status = "running" /\ pc = "author"
    /\ Prompted("domains", locals)

\* the domains box returns a value validateInput accepts
getProjectInfo_domainsInput ==
    /\ status = "running" /\ pc = "domains"
    /\ \E value \in TypedDomains :
         /\ validateInput_domains(value) = "null"
         /\ Prompted("database",
                     [locals EXCEPT !.domains = getProjectInfo_domains(value)])

getProjectInfo_database ==
    /\ status = "running" /\ pc = "database"
    /\ \E database \in {"mongodb", "none"} :
         Prompted("includeDocker", [locals EXCEPT !.database = database])

getProjectInfo_includeDocker ==
    /\ status = "running" /\ pc = "includeDocker"
    /\ \E answer \in BOOLEAN :
         Prompted("includeTests", [locals EXCEPT !.includeDocker = answer])

getProjectInfo_includeTests ==
    /\ status = "running" /\ pc = "includeTests"
    /\ \E answer \in BOOLEAN :
         Prompted("projectExists", [locals EXCEPT !.includeTests = answer])

\* any of the seven prompts is dismissed: getProjectInfo returns undefined
getProjectInfo_dismissed ==
    /\ status = "running"
    /\ pc \in {"name", "description", "author", "domains", "database",
               "includeDocker", "includeTests"}
    /\ Returned("cancelled")

\* the call of projectGenerator.generateProject(projectInfo, targetPath)
StartGeneration(answers) ==
    /\ projectInfo' = [domains |-> answers.domains,
                       includeDocker |-> answers.includeDocker,
                       includeTests |-> answers.includeTests,
                       database |-> answers.database]
    /\ locals' = answers
    /\ pc' = "createProjectStructure"
    /\ ip' = 1
    /\ trace' = <<"Planned">>
    /\ UNCHANGED <<dirs, files, issued, status, thrown, fsFailures, warnings,
                   args, snapshot>>

\* if (await projectExists(projectPath)) the overwrite question is asked
generateProjectCommand_projectExists ==
    /\ status = "running" /\ pc = "projectExists"
    /\ IF projectExists(dirs, files)
       THEN Prompted("showWarningMessage", locals)
       ELSE StartGeneration(locals)

\* the answer to the overwrite question: 'Yes', 'No', or dismissed
showWarningMessage_overwrite ==
    /\ status = "running" /\ pc = "showWarningMessage"
    /\ \E overwrite \in {"Yes", "No", "undefined"} :
         IF overwrite # "Yes"
         THEN /\ pc' = "returned"
              /\ status' = "cancelled"
              /\ locals' = [locals EXCEPT !.overwrite = overwrite]
              /\ UNCHANGED <<projectInfo, ip, trace, dirs, files, issued,
                             thrown, fsFailures, warnings, args, snapshot>>
         ELSE StartGeneration([locals EXCEPT !.overwrite = overwrite])

\* the withProgress callback: generateProject runs its stages
withProgress_generateProject ==
    /\ projectInfo # <<>>
    /\ \/ createProjectStructure
       \/ generateBaseFiles
       \/ DomainGenerator_generate
       \/ ConfigGenerator_generate
       \/ DockerGenerator_generate
       \/ generateAdditionalFiles
       \/ generateProjectReturn

NextCommand ==
    \/ generateProjectCommand_getTargetPath
    \/ getProjectInfo_name
    \/ getProjectInfo_description
    \/ getProjectInfo_author
    \/ getProjectInfo_domainsInput
    \/ getProjectInfo_database
    \/ getProjectInfo_includeDocker
    \/ getProjectInfo_includeTests
    \/ getProjectInfo_dismissed
    \/ generateProjectCommand_projectExists
    \/ showWarningMessage_overwrite
    \/ withProgress_generateProject

SpecCommand == InitCommand /\ [][NextCommand]_vars

(***************************************************************************)
(* Properties                                                              *)
(***************************************************************************)
Log(ops) == [i \in 1..Len(ops) |-> [kind |-> ops[i].kind, path |-> ops[i].path]]

\* the states of section 4.5, with the container stage only for includeDocker
SpecStages(pi) ==
    <<"Planned", "StructureCreated", "BaseFilesGenerated", "DomainsGenerated",
      "ConfigGenerated">>
    \o (IF pi.includeDocker THEN <<"ContainerArtifactsGenerated">> ELSE <<>>)
    \o <<"Done">>

\* the same with the stage that writes docs/architecture.md and EventBus.js
StagesWithAdditionalFiles(pi) ==
    <<"Planned", "StructureCreated", "BaseFilesGenerated", "DomainsGenerated",
      "ConfigGenerated">>
    \o (IF pi.includeDocker THEN <<"ContainerArtifactsGenerated">> ELSE <<>>)
    \o <<"AdditionalFilesGenerated", "Done">>

\* the calls of each stage in the order above, and where each stage ends
CallsByStage(pi) ==
    << createProjectStructureOps(pi), generateBaseFilesOps(pi),
       DomainGenerator_generateOps(pi), ConfigGenerator_generateOps(pi) >>
    \o (IF pi.includeDocker THEN << DockerGenerator_generateOps(pi) >> ELSE <<>>)
    \o << generateAdditionalFilesOps(pi) >>

RECURSIVE CallsUpTo(_, _)
CallsUpTo(byStage, k) ==
    IF k <= 0 THEN 0
    ELSE IF k > Len(byStage) THEN CallsUpTo(byStage, Len(byStage))
    ELSE Len(byStage[k]) + CallsUpTo(byStage, k - 1)

\* C1 as stated: a finished run has passed through exactly Planned,
\* StructureCreated, BaseFilesGenerated, DomainsGenerated, ConfigGenerated,
\* ContainerArtifactsGenerated (only with includeDocker) and Done, and every
\* file-writing call belongs to one of these stages.
C1_SpecStagesOnly ==
    status = "done" =>
        /\ trace = SpecStages(projectInfo)
        /\ Len(issued) =
             CallsUpTo(CallsByStage(projectInfo),
                       Len(SpecStages(projectInfo)) - 2)

\* C1 amended: the stages are passed in the order Planned, StructureCreated,
\* BaseFilesGenerated, DomainsGenerated, ConfigGenerated,
\* ContainerArtifactsGenerated (only with includeDocker),
\* AdditionalFilesGenerated, Done; none twice, each entered only when all calls
\* of the previous one have been issued, and Done exactly on a normal return.
C1_StageOrder ==
    \E byStage \in {CallsByStage(projectInfo)} :
      LET completed == Len(trace) - 1 - (IF status = "done" THEN 1 ELSE 0) IN
      /\ IsPrefix(trace, StagesWithAdditionalFiles(projectInfo))
      /\ IsPrefix(issued, Log(Flatten(byStage)))
      /\ CallsUpTo(byStage, completed) <= Len(issued)
      /\ Len(issued) <= CallsUpTo(byStage, completed + 1)
      /\ (status = "done") = (Last(trace) = "Done")
      /\ status = "done" => trace = StagesWithAdditionalFiles(projectInfo)

C1_Witness ==
    /\ status = "done"
    /\ projectInfo.includeDocker
    /\ Len(projectInfo.domains) = 2
    /\ trace[6] = "ContainerArtifactsGenerated"
    /\ trace[7] = "AdditionalFilesGenerated"

\* C2 as stated: once any filesystem operation has failed the run is aborted
\* with an error for the caller, the failed operation is the last one issued
\* and Done is not reached.
C2_AnyFailureAborts ==
    fsFailures # <<>> =>
        /\ status = "failed"
        /\ thrown # <<>>
        /\ Last(trace) # "Done"
        /\ Len(fsFailures) = 1
        /\ Last(issued) = [kind |-> fsFailures[1].kind,
                           path |-> fsFailures[1].path]

\* C2 amended: once a create-directory or write-file operation has failed the
\* run is aborted with an error for the caller, the failed operation is the
\* last one issued and Done is not reached; a chmod that fails in
\* makeExecutable is only warned about and the run goes on.
C2_DirectoryOrWriteFailureAborts ==
    /\ \A i \in 1..Len(fsFailures) :
         fsFailures[i].prim \in {"mkdirSync", "writeFileSync"} =>
            /\ status = "failed"
            /\ thrown # <<>>
            /\ Last(trace) # "Done"
            /\ i = Len(fsFailures)
            /\ Last(issued) = [kind |-> fsFailures[i].kind,
                               path |-> fsFailures[i].path]
    /\ \A i \in 1..Len(fsFailures) :
         fsFailures[i].prim = "chmodSync" =>
            /\ warnings # <<>>
            /\ status = "failed" => i < Len(fsFailures)
    /\ status = "failed" => fsFailures # <<>>

C2_Witness ==
    /\ status = "failed"
    /\ fsFailures # <<>>
    /\ Last(fsFailures).prim = "writeFileSync"
    /\ pc = "domainGenerator.generate"
    /\ Len(issued) < Len(Flatten(CallsByStage(projectInfo)))

\* C3 as stated: the error that reaches the caller of generateProject carries
\* the message of the originating filesystem error, unmodified.
C3_MessageUnmodified ==
    status = "failed" => thrown = <<Last(fsFailures).cause>>

\* C3 amended: the error that reaches the caller is a new Error whose message
\* is the string form of the originating error ("Error: " and its message)
\* behind one prefix per layer crossed: "Failed to create directory <dir>: "
\* from ensureDirectory, "Failed to write file <file>: " from writeFile,
\* "Failed to create directories: " from BaseFileGenerator.createDirectories;
\* the catch blocks of the generators and of generateProject add nothing.
C3_MessageWrappedPerLayer ==
    status = "failed" =>
        LET f == Last(fsFailures)
            origin == <<"Error: ", f.cause>>
            mkdir(dir) == <<"Failed to create directory ", PathStr(dir), ": ">>
                          \o origin
        IN  thrown =
              CASE f.kind = "ensureDirectory" /\ f.via = "FileUtils" ->
                     mkdir(f.path)
                [] f.kind = "ensureDirectory" /\ f.via = "BaseFileGenerator" ->
                     <<"Failed to create directories: ", "Error: ">>
                     \o mkdir(f.path)
                [] f.kind = "writeFile" /\ f.prim = "writeFileSync" ->
                     <<"Failed to write file ", PathStr(f.path), ": ">>
                     \o origin
                [] f.kind = "writeFile" /\ f.prim = "mkdirSync" ->
                     <<"Failed to write file ", PathStr(f.path), ": ", "Error: ">>
                     \o mkdir(dirname(f.path))

C3_Witness ==
    /\ status = "failed"
    /\ Last(fsFailures).kind = "writeFile"
    /\ Last(fsFailures).path = <<"src", "server.js">>
    /\ thrown = <<"Failed to write file ", "src/server.js", ": ", "Error: ",
                  "EACCES: permission denied">>

\* the files of the domain whose folder is src/<d>
DomainFiles(d) == { p \in DOMAIN files : Len(p) >= 3 /\ p[1] = "src" /\ p[2] = d }

\* C4: after a successful run every relative require target in a generated
\* domain artifact names a file the run wrote, at exactly that path.
C4_RequireTargetsWritten ==
    status = "done" =>
        \A i \in 1..Len(projectInfo.domains) :
          \A p \in DomainFiles(Join(projectInfo.domains[i])) :
            \A k \in 1..Len(files[p].requires) :
              IsRelative(files[p].requires[k].target) =>
                ModuleFile(Resolve(p, files[p].requires[k].target))
                  \in DOMAIN files

\* C5: after a successful run every domain has its repository port, its
\* in-memory repository and, exactly when a database is selected, one
\* repository of that database (Mongo, Postgres or Mysql) and no other.
C5_RepositoriesWritten ==
    status = "done" =>
        \A i \in 1..Len(projectInfo.domains) :
          LET d == Join(projectInfo.domains[i])
              cap == capitalizedDomain(projectInfo.domains[i])
              repos == <<"src", d, "infrastructure", "repositories">>
              backend(prefix) == Append(repos, prefix \o cap \o "Repository.js")
              written == { prefix \in {"Mongo", "Postgres", "Mysql"} :
                             backend(prefix) \in DOMAIN files }
          IN  /\ <<"src", d, "application", "ports", cap \o "Repository.js">>
                   \in DOMAIN files
              /\ backend("Memory") \in DOMAIN files
              /\ projectInfo.database = "none" => written = {}
              /\ projectInfo.database # "none" =>
                   written = {getDatabasePrefix(projectInfo.database)}

\* C6: the route table of a domain requires './controllers/<Cap>Controller'
\* under the name <Cap>Controller, and that is the file the controller
\* generator wrote (infrastructure/controllers/<Cap>Controller.js) and the
\* class it exports.
C6_RouteControllerReference ==
    \A i \in 1..Len(projectInfo.domains) :
      LET d == Join(projectInfo.domains[i])
          routes == <<"src", d, "infrastructure", "routes.js">>
      IN  routes \in DOMAIN files =>
            \E k \in 1..Len(files[routes].requires) :
              LET r == files[routes].requires[k]
                  controller == ModuleFile(Resolve(routes, r.target))
              IN  /\ r.target = <<".", "controllers", r.ident>>
                  /\ controller = <<"src", d, "infrastructure", "controllers",
                                    r.ident \o ".js">>
                  /\ controller \in DOMAIN files
                  /\ files[controller].tag = "controller"
                  /\ files[controller].exports = r.ident

C6_Witness ==
    /\ status = "done"
    /\ <<"src", "orders", "infrastructure", "routes.js">> \in DOMAIN files
    /\ <<"src", "orders", "infrastructure", "controllers",
         "OrdersController.js">> \in DOMAIN files

\* C7: the server entry point mounts the routes of, and lists the endpoints
\* of, exactly the domains of projectInfo.domains, in that order.
C7_ServerEnumeratesDomains ==
    <<"src", "server.js">> \in DOMAIN files =>
        LET server == files[<<"src", "server.js">>]
            n == Len(projectInfo.domains)
        IN  /\ Len(server.mounts) = n
            /\ Len(server.endpoints) = n
            /\ \A i \in 1..n :
                 /\ server.mounts[i].url = "/api/" \o Join(projectInfo.domains[i])
                 /\ server.mounts[i].ident
                      = Join(projectInfo.domains[i]) \o "Routes"
                 /\ server.endpoints[i].name = Join(projectInfo.domains[i])
                 /\ server.endpoints[i].link
                      = "/api/" \o Join(projectInfo.domains[i])

C7_Witness ==
    /\ <<"src", "server.js">> \in DOMAIN files
    /\ projectInfo.domains = << <<"u", "s", "e", "r", "s">>,
                                <<"o", "r", "d", "e", "r", "s">> >>
    /\ files[<<"src", "server.js">>].mounts[1].url = "/api/users"
    /\ files[<<"src", "server.js">>].mounts[2].url = "/api/orders"

\* C8: the module path by which the server entry point loads the route table
\* of a domain, resolved from the directory of src/server.js, is the path at
\* which that route table is written, src/<d>/infrastructure/routes.js.
C8_ServerRoutePaths ==
    status = "done" =>
        \A i \in 1..Len(projectInfo.domains) :
          /\ ModuleFile(Resolve(<<"src", "server.js">>,
                                files[<<"src", "server.js">>].mounts[i].target))
               = <<"src", Join(projectInfo.domains[i]), "infrastructure",
                   "routes.js">>
          /\ <<"src", Join(projectInfo.domains[i]), "infrastructure",
               "routes.js">> \in DOMAIN files

NoDuplicates(s) == \A i, j \in 1..Len(s) : i # j => s[i] # s[j]

\* C9: for a specification with pairwise distinct domains the directory list
\* createProjectStructure has built and created contains no path twice.
C9_NoDuplicateDirectories ==
    (Len(trace) >= 2 /\ ValidDomains(projectInfo.domains)) =>
        NoDuplicates(directories(projectInfo))

\* the nine directories section 4.3 requires of a domain
RequiredDomainDirs(d) ==
    { <<"src", d, layer[1], layer[2]>> :
        layer \in { <<"application", "services">>,
                    <<"application", "use-cases">>,
                    <<"application", "ports">>,
                    <<"domain", "entities">>,
                    <<"domain", "value-objects">>,
                    <<"domain", "events">>,
                    <<"infrastructure", "repositories">>,
                    <<"infrastructure", "controllers">>,
                    <<"infrastructure", "adapters">> } }

\* where the group of the i-th domain starts in the list: the last src/<d>
\* before the start of the group of the next domain (0 when there is none)
RECURSIVE GroupStart(_, _, _)
GroupStart(list, domains, i) ==
    LET limit == IF i = Len(domains) THEN Len(list) + 1
                 ELSE GroupStart(list, domains, i + 1)
        at == { k \in 1..(limit - 1) : list[k] = <<"src", Join(domains[i])>> }
    IN  IF at = {} THEN 0 ELSE CHOOSE k \in at : \A m \in at : m <= k

\* C10: once createProjectStructure has run, the directory list holds, for
\* every domain, its nine application/domain/infrastructure directories, the
\* groups of the domains follow each other in the order of
\* projectInfo.domains, and the directories exist.
C10_DomainDirectories ==
    (pc = "generateBaseFiles" /\ ip = 1) =>
        \E list \in {directories(projectInfo)} :
          \A i \in 1..Len(projectInfo.domains) :
            LET start == GroupStart(list, projectInfo.domains, i)
                end == IF i = Len(projectInfo.domains) THEN Len(list) + 1
                       ELSE GroupStart(list, projectInfo.domains, i + 1)
            IN  /\ start > 0
                /\ \A dir \in RequiredDomainDirs(Join(projectInfo.domains[i])) :
                     /\ \E k \in (start + 1)..(end - 1) : list[k] = dir
                     /\ dir \in dirs
                /\ [k \in 1..Len(list) |-> issued[k].path] = list

C10_Witness ==
    /\ pc = "generateBaseFiles"
    /\ ip = 1
    /\ projectInfo.domains = << <<"s", "h", "a", "r", "e", "d">>,
                                <<"o", "r", "d", "e", "r", "s">> >>
    /\ projectInfo.includeTests
    /\ <<"src", "orders", "application", "ports">> \in dirs

\* the backend init scripts DockerGenerator.generateDatabaseScripts writes
InitScripts(fs) ==
    { p \in DOMAIN fs :
        fs[p].tag \in {"mongo-init", "postgres-init", "mysql-init"} }

C12_CreateDirectoriesIdempotent ==
    /\ locals.call = 2 =>
         /\ dirs = snapshot.dirs
         /\ status # "failed"
         /\ thrown = <<>>
         /\ (pc = "returned" =>
               /\ locals.createdDirs = args.directories
               /\ locals.createdDirs = snapshot.createdDirs)
    /\ \A dir \in dirs :
         ensureDirectory(dir, dirs, files)
           = { Outcome(TRUE, dirs, files, <<>>, "", "") }

C12_Witness ==
    /\ locals.call = 2
    /\ pc = "returned"
    /\ args.directories = << <<"src", "shared", "domain">>, <<"config">>,
                             <<"src">> >>
    /\ dirs = { <<>>, <<"src">>, <<"src", "shared">>,
                <<"src", "shared", "domain">>, <<"config">> }

\* the paths of a tree: its directories and its files
Paths(ds, fs) == ds \cup DOMAIN fs

\* C13: while the value in the input box names a folder src/<domain> that
\* exists, validateInput reports the collision and nothing has been created
\* or written; createDomainStructure and the generator only ever run for a
\* domain whose folder did not exist when the command was called.
C13_CollisionReported ==
    /\ (/\ pc = "showInputBox"
        /\ IsDomainName(locals.value)
        /\ existsSync(<<"src", Join(locals.value)>>, dirs, files))
         => /\ locals.validation = "Domain already exists"
            /\ dirs = snapshot.dirs
            /\ files = snapshot.files
            /\ issued = <<>>
    /\ pc = "showInputBox" => issued = <<>>
    /\ issued # <<>> =>
         ~existsSync(<<"src", Join(locals.domain)>>,
                     snapshot.dirs, snapshot.files)

C13_Witness ==
    /\ pc = "showInputBox"
    /\ locals.value = <<"o", "r", "d", "e", "r", "s">>
    /\ locals.validation = "Domain already exists"
    /\ <<"src", "orders", "domain", "entities", "Orders.js">> \in DOMAIN files

\* what the command has created so far
Created == Paths(dirs, files) \ Paths(snapshot.dirs, snapshot.files)

\* the files the domain stage of generateProject writes for a domain
OrchestratorArtifacts(domain, pi) ==
    { op.path : op \in { o \in Range(generateDomainFiles(domain, pi)) :
                           o.kind = "writeFile" } }

\* C14: after a successful addDomainCommand for d the files it wrote under
\* src/<d> are the files the domain stage of generateProject writes under
\* src/<d> for the same d.
C14_SameArtifactsAsOrchestrator ==
    status = "done" =>
        \A pi \in ExistingProjects :
          { p \in Created \cap DOMAIN files :
              IsPrefix(<<"src", Join(locals.domain)>>, p) }
            = OrchestratorArtifacts(locals.domain, pi)

\* C15: addDomainCommand leaves every file that was there when it was called
\* in place with the content it had (the files of the other domains,
\* package.json, src/server.js, config/, .env.example, README.md, docs/), and
\* every directory in place.
C15_ExistingFilesUnchanged ==
    /\ \A p \in DOMAIN snapshot.files :
         /\ p \in DOMAIN files
         /\ files[p] = snapshot.files[p]
    /\ snapshot.dirs \subseteq dirs

C15_Witness ==
    /\ status = "done"
    /\ locals.domain = <<"u", "s", "e", "r", "s">>
    /\ <<"src", "users", "domain", "entities", "Users.js">> \in DOMAIN files
    /\ <<"src", "orders", "domain", "entities", "Orders.js">>
         \in DOMAIN snapshot.files
    /\ <<"package.json">> \in DOMAIN snapshot.files
    /\ <<"src", "server.js">> \in DOMAIN snapshot.files

\* C16 as stated: everything the command creates lies under src/<d>/.
C16_CreatedUnderDomainOnly ==
    \A p \in Created : IsPrefix(<<"src", Join(locals.domain)>>, p)

\* C16 amended: everything the command creates lies under src/<d>/, except
\* the directory tests/<d>, which createDomainStructure creates exactly when
\* the project has a tests/ directory.
C16_CreatedUnderDomainOrTests ==
    \E d \in {Join(locals.domain)} :
      /\ \A p \in Created : IsPrefix(<<"src", d>>, p) \/ p = <<"tests", d>>
      /\ <<"tests", d>> \in Created =>
           existsSync(<<"tests">>, snapshot.dirs, snapshot.files)
      /\ (/\ pc \in {"generateDomainFiles", "showInformationMessage",
                     "returned"}
          /\ locals.domain # <<>>
          /\ existsSync(<<"tests">>, snapshot.dirs, snapshot.files))
           => <<"tests", d>> \in Created

C16_Witness ==
    /\ status = "done"
    /\ locals.domain = <<"b", "2">>
    /\ <<"tests", "b2">> \in Created
    /\ <<"src", "b2", "infrastructure", "routes.js">> \in Created

\* a dotted path walked segment by segment, as section 4.2 words it
RECURSIVE WalkSegments(_, _)
WalkSegments(value, segments) ==
    IF segments = <<>> THEN value
    ELSE WalkSegments(Get(value, Join(Head(segments))), Tail(segments))

\* the output section 4.2 asks for: the string form for a placeholder whose
\* path resolves, the placeholder itself otherwise, the text as it is
ExpectedOutput(template, data) ==
    LET ms == Matches(template) IN
    Flatten([i \in 1..Len(ms) |->
               IF ~ms[i].placeholder THEN ms[i].match
               ELSE LET v == WalkSegments(data, split(trim(ms[i].key))) IN
                    IF v.t = "undefined" \/ v.throws THEN ms[i].match
                    ELSE <<v.str>>])

\* C17: render returns the template with every placeholder whose path
\* resolves segment by segment to a defined value replaced by the string form
\* of the value, every other placeholder and all other text as they are, and
\* it throws only when the template cannot be read.
C17_Interpolation ==
    /\ pc = "returned" =>
         locals.output = ExpectedOutput(locals.templateContent, args.data)
    /\ status = "failed" => pc = "readFile"

\* one warning for each placeholder left verbatim for an undefined segment
ExpectedWarnings(template, data) ==
    LET ms == Matches(template) IN
    Flatten([i \in 1..Len(ms) |->
               IF /\ ms[i].placeholder
                  /\ getNestedProperty(data, trim(ms[i].key)).t = "undefined"
               THEN << "Template interpolation warning: Could not resolve "
                         \o Join(ms[i].key) >>
               ELSE <<>>])

\* C18: the warnings render has emitted are one per placeholder it left
\* verbatim because a segment of its path is undefined, each naming its
\* placeholder, and none for a placeholder that resolves.
C18_WarningPerUnresolved ==
    pc = "returned" =>
        warnings = ExpectedWarnings(locals.templateContent, args.data)

\* C19: every site that has derived the capitalized name of a raw domain
\* name holds the same string: the first character in upper case followed by
\* the remaining characters as they are.
C19_SameCapitalizedName ==
    \A site \in DOMAIN locals :
      locals[site] = toUpperCase(Head(args.domain)) \o Join(Tail(args.domain))

\* a name that is a string with a character other than white space
NonBlank(name) == name.t = "string" /\ Len(trim(name.chars)) > 0

\* the entity fromJSON returned has the id and the name it was given, and
\* fromJSON never rejects its data
RestoredAsGiven ==
    /\ locals.restored # <<>> =>
         /\ locals.restored[1].id = args.id
         /\ locals.restored[1].name = args.name
    /\ pc = "fromJSON" => status = "running"
    /\ status = "failed" => pc = "create"

\* C20 as stated: for every id and every non-blank name create, toJSON and
\* fromJSON yield an entity with the same id and name, and fromJSON
\* reconstructs from whatever data it is given.
C20_RoundTripEveryId ==
    /\ RestoredAsGiven
    /\ (snapshot.route = "create" /\ NonBlank(args.name)) => status # "failed"

\* C20 amended: the same for every truthy id; create throws for an id that
\* is falsy (0, '', undefined) as it does for a blank name.
C20_RoundTripTruthyId ==
    /\ RestoredAsGiven
    /\ (snapshot.route = "create" /\ NonBlank(args.name) /\ args.id.truthy)
         => status # "failed"
    /\ (snapshot.route = "create" /\ pc # "create")
         => NonBlank(args.name) /\ args.id.truthy
    /\ (snapshot.route = "create" /\ locals.restored # <<>>) =>
         /\ locals.restored[1].createdAt = locals.entity[1].createdAt
         /\ locals.restored[1].updatedAt = locals.entity[1].updatedAt

C20_Witness ==
    /\ snapshot.route = "create"
    /\ status = "done"
    /\ args.id = NumberOf(7)
    /\ args.name = StringOf(<<" ", "A", " ">>)
    /\ locals.restored # <<>>
    /\ locals.restored[1].name.str = " A "

\* the use case a controller operation delegates to, run for a request
Executed(op, env, req, repo) ==
    CASE op = "create" -> CreateUseCase_execute(env, req.body, repo)
      [] op = "update" -> UpdateUseCase_execute(env, req.id, req.body.fields, repo)
      [] op = "delete" -> DeleteUseCase_execute(env, req.id, repo)
      [] op = "getById" -> FindByIdUseCase_execute(env, req.id, repo)
      [] OTHER -> FindAllUseCase_execute(env, repo)

\* the last request reached the execute of a create, update or delete use case
Mutating ==
    /\ snapshot # <<>>
    /\ snapshot.op \in {"create", "update", "delete"}
    /\ snapshot.effect.calls # <<>>

EventType(op) ==
    capitalizedDomain(args.domain)
       \o (CASE op = "create" -> "Created" [] op = "update" -> "Updated"
             [] OTHER -> "Deleted")

RepositoryCall(op) == IF op = "delete" THEN "delete" ELSE "save"

\* C21: with an event bus, a create, update or delete execute that returns has
\* published exactly one event, of type <Cap>Created, <Cap>Updated or
\* <Cap>Deleted, carrying the aggregate id, data and the timestamp, and publish
\* is only ever called right after the repository operation succeeded; with no
\* event bus, execute never calls publish and has the same outcome, result,
\* error and repository effect as with a bus whose handlers resolve
C21_PublishAfterRepository ==
    Mutating =>
      LET e == snapshot.effect
          op == snapshot.op
          env == snapshot.env
          n == Len(e.calls)
          withBus == Executed(op, [env EXCEPT !.eventBus = "resolving"],
                              snapshot.req, snapshot.before)
      IN  /\ (env.eventBus # "null" /\ e.ok) =>
                /\ Len(e.events) = 1
                /\ e.events[1].type = EventType(op)
                /\ e.events[1].aggregateId =
                      (IF op = "delete" THEN snapshot.req.id ELSE e.value[1].id)
                /\ e.events[1].data =
                      (IF op = "delete" THEN [id |-> snapshot.req.id]
                       ELSE toJSON(e.value[1]))
                /\ e.events[1].timestamp = env.now
          /\ \A i \in 1..n : e.calls[i] = "publish" =>
                /\ i = n /\ i > 1
                /\ e.calls[i - 1] = RepositoryCall(op)
                /\ ~env.repositoryFails
                /\ env.eventBus # "null"
          /\ ~e.ok => e.events = <<>>
          /\ env.eventBus = "null" =>
                /\ e.events = <<>>
                /\ e.ok = withBus.ok
                /\ e.value = withBus.value
                /\ e.error = withBus.error
                /\ e.repo = withBus.repo

\* an update on a resolving bus published its one event after the save
C21_Witness ==
    /\ Mutating
    /\ snapshot.op = "update"
    /\ snapshot.env.eventBus = "resolving"
    /\ snapshot.effect.ok
    /\ snapshot.effect.calls = <<"findById", "save", "publish">>
    /\ Len(snapshot.effect.events) = 1

\* the name of the request body is a string that is empty after trimming
BlankName(body) ==
    /\ body.present
    /\ "name" \in DOMAIN body.fields
    /\ body.fields["name"].t = "string"
    /\ trim(body.fields["name"].chars) = <<>>

\* the names stored under each id
StoredNames(repo) == [id \in DOMAIN repo.items |-> repo.items[id].name]

\* C22: a create or an update (of a stored entity) whose name is empty or
\* whitespace-only is rejected by the use case and leaves every stored name
\* as it was, and the entity's create rejects such a name
C22_BlankNameRejected ==
    /\ \A name \in RequestNames :
          trim(name.chars) = <<>> => create(StringOf(<<"1">>), name, 1) = <<>>
    /\ ( /\ snapshot # <<>>
         /\ snapshot.op \in {"create", "update"}
         /\ snapshot.effect.calls # <<>> \/ snapshot.effect.error # <<>>
         /\ snapshot.op = "update" => snapshot.req.id \in DOMAIN snapshot.before.items
         /\ BlankName(snapshot.req.body) )
       => /\ ~snapshot.effect.ok
          /\ StoredNames(snapshot.effect.repo) = StoredNames(snapshot.before)

\* the use case of the last request threw
UseCaseFailed == snapshot # <<>> /\ ~snapshot.effect.ok

\* the use case threw because of the name: required, too long, or empty
InvalidNameFailure ==
    /\ UseCaseFailed
    /\ \/ includes(snapshot.effect.error, " name is ")
       \/ includes(snapshot.effect.error, " name is too long")
       \/ includes(snapshot.effect.error, "Name cannot be empty")

\* the use case threw because no entity has the id
MissingEntityFailure ==
    /\ UseCaseFailed
    /\ includes(snapshot.effect.error, "not found")

\* C23: a use-case failure is answered with 400, 404 or 500; a failure caused
\* by an invalid name is answered with 400 VALIDATION_ERROR in create and
\* update, and a failure caused by a missing entity with 404 NOT_FOUND in
\* getById, update and delete
C23_FailureTranslation ==
    /\ UseCaseFailed => snapshot.response.status \in {400, 404, 500}
    /\ (InvalidNameFailure /\ snapshot.op \in {"create", "update"})
          => snapshot.response = Response(400, "VALIDATION_ERROR")
    /\ (MissingEntityFailure /\ snapshot.op \in {"getById", "update", "delete"})
          => snapshot.response = Response(404, "NOT_FOUND")

\* C29: when the create use case's execute throws, the failing event
\* publisher included, the repository holds exactly the entities it held
\* before the call
C29_FailedCreateStoresNothing ==
    (UseCaseFailed /\ snapshot.op = "create")
       => snapshot.effect.repo.items = snapshot.before.items

\* every entity stored before the last call is still stored, unchanged
NothingReplaced ==
    \A id \in DOMAIN snapshot.before.items :
       /\ id \in DOMAIN locals.repo.items
       /\ locals.repo.items[id] = snapshot.before.items[id]

\* C27: saving an entity that has no id (by save, or by seed of data without
\* ids) stores it under an id of the counter that is not yet a key of the
\* map, so no stored entity is replaced
C27_GeneratedIdIsFresh ==
    /\ (snapshot # <<>> /\ snapshot.op = "save"
          /\ ~snapshot.input[1].id.truthy) => NothingReplaced
    /\ (snapshot # <<>> /\ snapshot.op = "seed"
          /\ \A i \in 1..Len(snapshot.input) : "id" \notin DOMAIN snapshot.input[i])
       => NothingReplaced

\* how many times a path occurs in a list
Occurrences(list, path) == Cardinality({ i \in 1..Len(list) : list[i] = path })

\* C28: when generate has returned, the DomainGenerator's created-files list
\* holds every path written during the call exactly once, and nothing else
C28_CreatedFilesOnce ==
    (pc = "idle" /\ snapshot # <<>>) =>
       /\ \A path \in Range(snapshot.written) :
             Occurrences(locals.lists.filesCreated, path) = 1
       /\ Range(locals.lists.filesCreated) = Range(snapshot.written)

\* the artifacts of a domain in reference order: the entity, the five use
\* cases, the controller, the route table
ArtifactsInReferenceOrder(domain) ==
    LET d == Join(domain)
        cap == capitalizedDomain(domain)
    IN  << <<"src", d, "domain", "entities", cap \o ".js">>,
           <<"src", d, "application", "use-cases", "Create" \o cap \o "UseCase.js">>,
           <<"src", d, "application", "use-cases", "Update" \o cap \o "UseCase.js">>,
           <<"src", d, "application", "use-cases", "Delete" \o cap \o "UseCase.js">>,
           <<"src", d, "application", "use-cases", "FindById" \o cap \o "UseCase.js">>,
           <<"src", d, "application", "use-cases", "FindAll" \o cap \o "UseCase.js">>,
           <<"src", d, "infrastructure", "controllers", cap \o "Controller.js">>,
           <<"src", d, "infrastructure", "routes.js">> >>

\* the artifacts of all domains, domain after domain in specification order
ArtifactsInOrder(domains) ==
    Flatten([i \in 1..Len(domains) |-> ArtifactsInReferenceOrder(domains[i])])

\* the writes of domain artifacts among the operations issued so far
ArtifactWrites(log, artifacts) ==
    LET IsArtifactWrite(call) ==
           call.kind = "writeFile" /\ call.path \in Range(artifacts)
        writes == SelectSeq(log, IsArtifactWrite)
    IN  [i \in 1..Len(writes) |-> writes[i].path]

\* C26: the domain artifacts are written one after the other, domain after
\* domain in the order of projectInfo.domains and within a domain in the
\* order entity, five use cases, controller, routes; a domain artifact that a
\* written artifact requires has been written before it
C26_SequentialReferenceOrder ==
    \E artifacts \in {ArtifactsInOrder(projectInfo.domains)} :
      /\ IsPrefix(ArtifactWrites(issued, artifacts), artifacts)
      /\ \A i \in 1..Len(issued) :
           (issued[i].kind = "writeFile" /\ issued[i].path \in Range(artifacts)
              /\ issued[i].path \in DOMAIN files) =>
             \A k \in 1..Len(files[issued[i].path].requires) :
               LET required == ModuleFile(Resolve(issued[i].path,
                                  files[issued[i].path].requires[k].target))
               IN  required \in Range(artifacts) =>
                     \E j \in 1..(i - 1) : issued[j].path = required

\* both domains of a run are generated: the route table of the second is
\* written after the artifacts of the first
C26_Witness ==
    /\ status = "done"
    /\ projectInfo.domains = << <<"u", "s", "e", "r", "s">>,
                                <<"o", "r", "d", "e", "r", "s">> >>
    /\ <<"src", "users", "infrastructure", "routes.js">> \in DOMAIN files
    /\ <<"src", "orders", "infrastructure", "routes.js">> \in DOMAIN files

\* /^[a-z][a-z0-9-]*$/.test(value)
IsIdentifier(value) ==
    /\ value # <<>>
    /\ value[1] \in Range(Lower)
    /\ \A i \in 2..Len(value) :
         value[i] \in Range(Lower) \cup Range(Digits) \cup {"-"}

\* C24: generateProject is only ever started with a name and domains that
\* match [a-z][a-z0-9-]* and a domain list that is non-empty and pairwise
\* distinct
C24_ValidSpecificationOnly ==
    projectInfo # <<>> =>
       /\ IsIdentifier(locals.name)
       /\ \A i \in 1..Len(projectInfo.domains) : IsIdentifier(projectInfo.domains[i])
       /\ ValidDomains(projectInfo.domains)

\* the tree is as the command found it and no filesystem call was issued
Untouched ==
    /\ issued = <<>>
    /\ dirs = snapshot.dirs
    /\ files = snapshot.files

\* the directory <target>/<name> was there when the command was invoked
ProjectStood == <<>> \in snapshot.dirs

\* C25: when a project stands at <target>/<name>, the command issues no
\* filesystem call unless the overwrite question was answered 'Yes'; a
\* cancelled command leaves the tree untouched; and after a confirmed run that
\* met no filesystem error every file the generators write holds the newly
\* generated content
C25_OverwriteOnlyWhenConfirmed ==
    /\ (ProjectStood /\ locals.overwrite # "Yes") => Untouched
    /\ status = "cancelled" => Untouched
    /\ projectInfo = <<>> => Untouched
    /\ (status = "done" /\ locals.overwrite = "Yes" /\ fsFailures = <<>>) =>
          \E fresh \in { GeneratedFromNothing(projectInfo) } :
             \A path \in DOMAIN fresh.files :
                /\ path \in DOMAIN files
                /\ files[path] = fresh.files[path]

\* a confirmed run has replaced the database configuration of the earlier
\* project
C25_Witness ==
    /\ status = "done"
    /\ locals.overwrite = "Yes"
    /\ fsFailures = <<>>
    /\ ProjectStood
    /\ snapshot.files[<<"config", "database.js">>] # files[<<"config", "database.js">>]

\* the command runs on the tree an earlier run with the same answers left
SecondRun == projectInfo # <<>> /\ args.earlier = projectInfo

\* C30: a run on an empty target that returns normally leaves the tree of the
\* specification; a second run with the same specification on that tree
\* (overwrite confirmed) fails only when the filesystem reports an error, and
\* leaves the same directories and files with the same contents
C30_SecondRunLeavesSameTree ==
    /\ (status = "done" /\ snapshot.dirs = {} /\ fsFailures = <<>>) =>
          [dirs |-> dirs, files |-> files] = GeneratedFromNothing(projectInfo)
    /\ SecondRun =>
          /\ locals.overwrite = "Yes"
          /\ dirs = snapshot.dirs
          /\ files = snapshot.files
          /\ status = "failed" =>
                \E i \in 1..Len(fsFailures) : fsFailures[i].cause \in FsErrors

\* the second run has returned normally
C30_Witness ==
    /\ SecondRun
    /\ status = "done"
    /\ projectInfo.includeDocker
    /\ Len(issued) > 0
    /\ <<"src", "users", "infrastructure", "routes.js">> \in DOMAIN files

====
